---- MODULE Spec2Model ----
(***************************************************************************)
(* Model of the search-strategy pipeline of WebSearchAgent                 *)
(* (src/agents/web_search_agent.py): the query normalizer                  *)
(* _extract_search_queries, the per-query search step, and the keyword     *)
(* classifier _is_search_complete.                                         *)
(*                                                                         *)
(* Text is a sequence of characters, each character a one-character        *)
(* string; the character U+2022 (the bullet) is written "U+2022".          *)
(* Python's leading underscore of private methods is dropped from the      *)
(* names, TLA+ identifiers cannot carry it.                                *)
(***************************************************************************)
EXTENDS Integers, Sequences, FiniteSets, TLC

(***************************************************************************)
(* Bounds of the model.                                                    *)
(***************************************************************************)
\* lines of a strategy text drawn from StrategyLines
MaxLines == 2
\* lines of a strategy text drawn from ShortLines (many short lines)
MaxShortLines == 6
\* fragments of an evaluation text
MaxEvalFrags == 3
\* the largest max_results a search engine is called with
MaxResults == 3
\* the threads that use Config
NumThreads == 2
\* the get_llm and reload calls of one thread
MaxCalls == 2
\* the calls made on one WebSearchAgent
MaxAgentCalls == 3
\* the TerminalTool._run calls
MaxTerminalCalls == 3
\* the largest tab id of BrowserUseTool
MaxTabId == 3
\* the longest reason and final_result handed to TerminateTool._run
MaxTextLen == 3

(***************************************************************************)
(* Python's str and re primitives, on sequences of characters.             *)
(***************************************************************************)
\* the characters str.strip() and the regex class \s remove
WhiteSpace == {" ", "\t", "\n", "\r", "\f"}

\* the regex class \d
Digits == {"0", "1", "2", "3", "4", "5", "6", "7", "8", "9"}

LowerOf ==
    ("A" :> "a") @@ ("B" :> "b") @@ ("C" :> "c") @@ ("D" :> "d") @@
    ("E" :> "e") @@ ("F" :> "f") @@ ("G" :> "g") @@ ("H" :> "h") @@
    ("I" :> "i") @@ ("J" :> "j") @@ ("K" :> "k") @@ ("L" :> "l") @@
    ("M" :> "m") @@ ("N" :> "n") @@ ("O" :> "o") @@ ("P" :> "p") @@
    ("Q" :> "q") @@ ("R" :> "r") @@ ("S" :> "s") @@ ("T" :> "t") @@
    ("U" :> "u") @@ ("V" :> "v") @@ ("W" :> "w") @@ ("X" :> "x") @@
    ("Y" :> "y") @@ ("Z" :> "z")

\* str.lower()
lower(s) ==
    [i \in 1..Len(s) |-> IF s[i] \in DOMAIN LowerOf THEN LowerOf[s[i]] ELSE s[i]]

\* sub in s
Contains(s, sub) ==
    \E i \in 0..(Len(s) - Len(sub)) : \A j \in 1..Len(sub) : s[i + j] = sub[j]

\* the index of the first character of s, at or after position from, that
\* is in chars; Len(s) + 1 when there is none
FirstIn(s, from, chars) ==
    IF \E i \in from..Len(s) : s[i] \in chars
    THEN CHOOSE i \in from..Len(s) :
            s[i] \in chars /\ \A j \in from..(i - 1) : s[j] \notin chars
    ELSE Len(s) + 1

\* the same for the first character that is not in chars
FirstNotIn(s, from, chars) ==
    IF \E i \in from..Len(s) : s[i] \notin chars
    THEN CHOOSE i \in from..Len(s) :
            s[i] \notin chars /\ \A j \in from..(i - 1) : s[j] \in chars
    ELSE Len(s) + 1

\* the index of the last character of s that is not in chars, 0 when none
LastNotIn(s, chars) ==
    IF \E i \in 1..Len(s) : s[i] \notin chars
    THEN CHOOSE i \in 1..Len(s) :
            s[i] \notin chars /\ \A j \in (i + 1)..Len(s) : s[j] \in chars
    ELSE 0

\* str.strip(chars): the characters of the set chars removed at both ends
strip_chars(s, chars) ==
    LET a == FirstNotIn(s, 1, chars)
        b == LastNotIn(s, chars)
    IN  IF a > b THEN <<>> ELSE SubSeq(s, a, b)

\* str.strip()
strip(s) == strip_chars(s, WhiteSpace)

\* str.split(sep) for a one-character separator
RECURSIVE split(_, _)
split(s, sep) ==
    LET i == FirstIn(s, 1, {sep})
    IN  IF i > Len(s) THEN <<s>>
        ELSE <<SubSeq(s, 1, i - 1)>> \o split(SubSeq(s, i + 1, Len(s)), sep)

\* sequence[:n]
Take(seq, n) == SubSeq(seq, 1, IF Len(seq) < n THEN Len(seq) ELSE n)

(***************************************************************************)
(* WebSearchAgent._extract_search_queries                                  *)
(***************************************************************************)
\* len(query) > 5: the minimum reasonable query length
MinQueryLen == 5
\* quoted[:3]
MaxQuoted == 3
\* queries[:5]
MaxQueries == 5

\* the marker phrases of a line that looks like a query plan
marker_phrases == {
    <<"s","e","a","r","c","h"," ","f","o","r">>,
    <<"q","u","e","r","y",":">>,
    <<"r","e","s","e","a","r","c","h",":">>,
    <<"l","o","o","k"," ","u","p">> }

\* any(word in line.lower() for word in [...])
has_marker_phrase(line) ==
    \E word \in marker_phrases : Contains(lower(line), word)

\* re.sub(r'^.*?[:-]\s*', '', line): the shortest prefix that ends in ':' or
\* '-', and the white space after it, removed; line unchanged without one
strip_to_delimiter(line) ==
    LET d == FirstIn(line, 1, {":", "-"})
    IN  IF d > Len(line) THEN line
        ELSE SubSeq(line, FirstNotIn(line, d + 1, WhiteSpace), Len(line))

\* re.match(r'^\d+[\.\)]|^[-*U+2022]', line)
is_numbered_or_bulleted(line) ==
    LET k == FirstNotIn(line, 1, Digits)
    IN  /\ Len(line) > 0
        /\ \/ line[1] \in {"-", "*", "U+2022"}
           \/ k > 1 /\ k <= Len(line) /\ line[k] \in {".", ")"}

\* re.sub(r'^[\d\.\)\-*U+2022\s]+', '', line)
strip_bullet(line) ==
    LET marker == Digits \cup {".", ")", "-", "*", "U+2022"} \cup WhiteSpace
    IN  SubSeq(line, FirstNotIn(line, 1, marker), Len(line))

\* accept with >= in place of >
accept_at_least(query) == IF Len(query) >= MinQueryLen THEN <<query>> ELSE <<>>

\* if query and len(query) > 5: queries.append(query)
accept(query) == IF Len(query) > MinQueryLen THEN <<query>> ELSE <<>>

\* line_queries with if ... if in place of if ... elif: a line that matches
\* both rules is handled by both
line_queries_both_rules(raw) ==
    LET line == strip(raw)
    IN  (IF has_marker_phrase(line)
         THEN accept(strip_chars(strip_to_delimiter(line), {"\"", " "}))
         ELSE <<>>)
        \o (IF is_numbered_or_bulleted(line)
            THEN accept(strip_chars(strip_bullet(line), {"\"", " "}))
            ELSE <<>>)

\* one iteration of the loop over the lines: what the line appends to queries
line_queries(raw) ==
    LET line == strip(raw)
    IN  IF has_marker_phrase(line)
        THEN accept(strip_chars(strip_to_delimiter(line), {"\"", " "}))
        ELSE IF is_numbered_or_bulleted(line)
        THEN accept(strip_chars(strip_bullet(line), {"\"", " "}))
        ELSE <<>>

\* collect_queries that puts each line's query in front of the earlier ones
RECURSIVE collect_queries_reversed(_)
collect_queries_reversed(lines) ==
    IF lines = <<>> THEN <<>>
    ELSE collect_queries_reversed(Tail(lines)) \o line_queries(Head(lines))

\* the loop over the lines
RECURSIVE collect_queries(_)
collect_queries(lines) ==
    IF lines = <<>> THEN <<>>
    ELSE line_queries(Head(lines)) \o collect_queries(Tail(lines))

\* findall_quoted that takes a closing quote as the next opening quote too
RECURSIVE findall_quoted_overlapping(_)
findall_quoted_overlapping(text) ==
    LET i == FirstIn(text, 1, {"\""})
        j == FirstIn(text, i + 1, {"\""})
    IN  IF j > Len(text) THEN <<>>
        ELSE IF j = i + 1
        THEN findall_quoted_overlapping(SubSeq(text, j, Len(text)))
        ELSE <<SubSeq(text, i + 1, j - 1)>>
                \o findall_quoted_overlapping(SubSeq(text, j, Len(text)))

\* re.findall(r'"([^"]+)"', text): leftmost non-overlapping matches
RECURSIVE findall_quoted(_)
findall_quoted(text) ==
    LET i == FirstIn(text, 1, {"\""})
        j == FirstIn(text, i + 1, {"\""})
    IN  IF j > Len(text) THEN <<>>
        ELSE IF j = i + 1 THEN findall_quoted(SubSeq(text, j, Len(text)))
        ELSE <<SubSeq(text, i + 1, j - 1)>>
                \o findall_quoted(SubSeq(text, j + 1, Len(text)))

\* strategy.content if hasattr(strategy, 'content') else str(strategy)
text_of(obj) == IF obj.has_content THEN obj.content ELSE obj.str

\* extract_search_queries that falls back to the text as it came
extract_search_queries_unstripped(strategy) ==
    LET strategy_text == text_of(strategy)
        queries == collect_queries(split(strategy_text, "\n"))
        quoted == findall_quoted(strategy_text)
    IN  IF queries = <<>>
        THEN IF quoted # <<>> THEN Take(quoted, MaxQuoted)
             ELSE <<strategy_text>>
        ELSE Take(queries, MaxQueries)

\* extract_search_queries without the final queries[:5]
extract_search_queries_untruncated(strategy) ==
    LET strategy_text == text_of(strategy)
        queries == collect_queries(split(strategy_text, "\n"))
        quoted == findall_quoted(strategy_text)
    IN  IF queries = <<>>
        THEN IF quoted # <<>> THEN Take(quoted, MaxQuoted)
             ELSE <<strip(strategy_text)>>
        ELSE queries

extract_search_queries(strategy) ==
    LET strategy_text == text_of(strategy)
        queries == collect_queries(split(strategy_text, "\n"))
        quoted == findall_quoted(strategy_text)
    IN  IF queries = <<>>
        THEN IF quoted # <<>> THEN Take(quoted, MaxQuoted)
             ELSE <<strip(strategy_text)>>
        ELSE Take(queries, MaxQueries)

(***************************************************************************)
(* WebSearchAgent._is_search_complete                                      *)
(***************************************************************************)
complete_indicators == {
    <<"a","d","e","q","u","a","t","e","l","y"," ","a","n","s","w","e","r">>,
    <<"s","u","f","f","i","c","i","e","n","t"," ","i","n","f","o","r","m","a","t","i","o","n">>,
    <<"c","o","m","p","r","e","h","e","n","s","i","v","e"," ","e","n","o","u","g","h">>,
    <<"q","u","e","r","y"," ","i","s"," ","a","n","s","w","e","r","e","d">>,
    <<"s","a","t","i","s","f","a","c","t","o","r","y">> }

incomplete_indicators == {
    <<"m","o","r","e"," ","i","n","f","o","r","m","a","t","i","o","n"," ","n","e","e","d","e","d">>,
    <<"a","d","d","i","t","i","o","n","a","l"," ","s","e","a","r","c","h">>,
    <<"m","i","s","s","i","n","g"," ","i","n","f","o","r","m","a","t","i","o","n">>,
    <<"n","e","e","d"," ","t","o"," ","e","x","p","l","o","r","e">> }

\* is_search_complete with the two checks in the other order
is_search_complete_incomplete_first(evaluation) ==
    LET evaluation_text == lower(text_of(evaluation))
    IN  IF \E indicator \in incomplete_indicators :
                Contains(evaluation_text, indicator)
        THEN FALSE
        ELSE TRUE

\* is_search_complete with the other default
is_search_complete_default_false(evaluation) ==
    LET evaluation_text == lower(text_of(evaluation))
    IN  \E indicator \in complete_indicators :
            Contains(evaluation_text, indicator)

\* is_search_complete without the check of the incomplete indicators
is_search_complete_no_incomplete(evaluation) == TRUE

is_search_complete(evaluation) ==
    LET evaluation_text == lower(text_of(evaluation))
    IN  IF \E indicator \in complete_indicators :
                Contains(evaluation_text, indicator)
        THEN TRUE
        ELSE IF \E indicator \in incomplete_indicators :
                Contains(evaluation_text, indicator)
        THEN FALSE
        ELSE TRUE

\* a str argument, and a message object that carries the text as .content
Str(text) == [has_content |-> FALSE, str |-> text]
Message(text) == [has_content |-> TRUE, content |-> text]

(***************************************************************************)
(* The inputs: strategy texts and evaluation texts.                        *)
(***************************************************************************)
RECURSIVE Join(_, _)
Join(lines, sep) ==
    IF lines = <<>> THEN <<>>
    ELSE IF Len(lines) = 1 THEN lines[1]
    ELSE lines[1] \o sep \o Join(Tail(lines), sep)

TuplesUpTo(S, n) == UNION {[1..k -> S] : k \in 0..n}

\* lines of every shape the normalizer tells apart
StrategyLines == {
    <<"1","."," ","S","e","a","r","c","h"," ","f","o","r"," ","r","e","c","e","n","t"," ","A","I"," ","s","a","f","e","t","y"," ","p","a","p","e","r","s">>,
    <<"2","."," ","L","o","o","k"," ","u","p"," ","A","I"," ","s","a","f","e","t","y"," ","f","u","n","d","i","n","g"," ","2","0","2","4">>,
    <<"Q","u","e","r","y",":"," ","\"","s","o","l","a","r"," ","p","o","w","e","r","\"">>,
    <<"r","e","s","e","a","r","c","h",":"," ","a","b">>,
    <<"l","o","o","k"," ","u","p"," ","s","t","a","t","e","-","o","f","-","t","h","e","-","a","r","t"," ","m","o","d","e","l","s">>,
    <<"-"," ","w","i","n","d"," ","e","n","e","r","g","y"," ","c","o","s","t","s">>,
    <<"*"," ","a","b","c","d","e">>,
    <<" "," ","3",")"," ","2","0","2","4"," ","t","i","d","a","l"," ","p","o","w","e","r"," ">>,
    <<"J","u","s","t"," ","c","h","e","c","k"," ","\"","q","u","a","n","t","u","m"," ","c","o","m","p","u","t","i","n","g"," ","b","r","e","a","k","t","h","r","o","u","g","h","s","\""," ","p","l","e","a","s","e">>,
    <<"s","e","e"," ","\"","a","b","\""," ","a","n","d"," ","\"","c","d","\"">>,
    <<"q","u","e","r","y",":","\"","\t","a","b","c","d","\t","\"">>,
    <<"a","n"," ","\"","\""," ","o","d","d"," ","\""," ","o","n","e">>,
    <<"p","l","a","i","n"," ","t","e","x","t">>,
    <<" "," ","\t">>,
    <<>> }

\* short lines, for texts of many lines
ShortLines == {
    <<"q","u","e","r","y",":"," ","a","b","c","d","e","f">>,
    <<"-"," ","b","c","d","e","f","g">>,
    <<"\"","a","b","\""," ","\"","c","d","e","\"">> }

StrategyTexts ==
    {Join(ls, <<"\n">>) : ls \in TuplesUpTo(StrategyLines, MaxLines)}
    \cup {Join(ls, <<"\n">>) : ls \in TuplesUpTo(ShortLines, MaxShortLines)}

EvaluationFragments == {
    <<"T","h","e","r","e"," ","i","s"," ","i","n","s","u","f","f","i","c","i","e","n","t"," ","i","n","f","o","r","m","a","t","i","o","n",";"," ">>,
    <<"a","d","d","i","t","i","o","n","a","l"," ","s","e","a","r","c","h">>,
    <<" ","n","e","e","d","e","d"," ","f","o","r"," ","X">>,
    <<"T","h","e"," ","r","e","s","u","l","t","s"," ","a","d","e","q","u","a","t","e","l","y"," ","a","n","s","w","e","r"," ","t","h","e"," ","q","u","e","r","y","."," ">>,
    <<"S","A","T","I","S","F","A","C","T","O","R","Y">>,
    <<"C","o","m","p","r","e","h","e","n","s","i","v","e"," ","e","n","o","u","g","h">>,
    <<"t","h","e"," ","q","u","e","r","y"," ","i","s"," ","a","n","s","w","e","r","e","d">>,
    <<"M","o","r","e"," ","I","n","f","o","r","m","a","t","i","o","n"," ","N","e","e","d","e","d">>,
    <<"m","i","s","s","i","n","g"," ","i","n","f","o","r","m","a","t","i","o","n">>,
    <<"w","e"," ","n","e","e","d"," ","t","o"," ","e","x","p","l","o","r","e">>,
    <<"S","E","A","R","C","H"," ","C","O","M","P","L","E","T","E">>,
    <<"A","D","D","I","T","I","O","N","A","L"," ","S","E","A","R","C","H","E","S"," ","N","E","E","D","E","D">> }

EvaluationTexts ==
    {Join(fs, <<>>) : fs \in TuplesUpTo(EvaluationFragments, MaxEvalFrags)}

(***************************************************************************)
(* State.                                                                  *)
(***************************************************************************)
VARIABLES
    pc,          \* where the run stands
    strategy,    \* the strategy text handed in
    queries,     \* search_queries
    evaluation,  \* the evaluator's text
    complete,    \* search_complete
    session_arg, \* the session_id argument of execute_search_strategy
    session_id,  \* self._session_id
    i,           \* the loop's position in search_queries (enumerate, from 1)
    results,     \* all_search_results
    combined,    \* combined_results
    raised_at,   \* the stage whose exception left execute_search_strategy
    history,     \* the session's chat history file, the roles of its messages
    saved,       \* the session's files written by _save_json
    calls,       \* the calls made so far, in order: <<callee, query number,
                 \* what came back>>
    engine,          \* perform_search: the search engine adapter called
    max_results,     \* perform_search: its max_results argument
    engine_results,  \* perform_search: its results list
    provider_failed, \* perform_search: the provider has raised
    preferred_arg,     \* WebSearchTool: the preferred_engine argument
    preferred_engine,  \* WebSearchTool: self._preferred_engine
    engine_order,      \* _run: engine_order
    consulted,         \* _run: the engines called so far, with what each
                       \* returned
    run_results,       \* _run: results
    formatted_results, \* _run: formatted_results
    formatted_text,    \* _run: formatted_text
    tpc,             \* Config: where each thread stands
    calls_left,      \* Config: the get_llm and reload calls each thread
                     \* may still make
    cfg_instance,    \* Config._instance: the number of the instance, 0
                     \* for None
    created,         \* Config: the instances created so far
    cfg_lock,        \* Config._lock: the thread that holds it, 0 when free
    cfg_initialized, \* Config._initialized
    init_loads,      \* Config: the _load_config calls of __init__ that
                     \* returned
    load_after_init, \* Config: __init__ has called _load_config after one
                     \* of its calls had returned
    llm_instance,    \* Config._llm_instance
    obtained,        \* Config: the instance Config() gave each thread, 0
                     \* for none
    got_llm,         \* Config: what get_llm last returned to each thread
    generated,  \* WebSearchAgent: the session ids get_session_id() has made
    uses,       \* WebSearchAgent: the calls made on the agent, each with the
                \* session id it searched under, the one it saved under and
                \* the one stored after it
    sessions,   \* TerminalTool._sessions, by the object that holds the dict
                \* and by session id: the history and the script file's
                \* commands
    submitted,  \* TerminalTool: the _run calls made so far
    ran,        \* TerminalTool: the commands the last call's shell ran, each
                \* with whether it exited with 0
    returned,   \* TerminalTool: what the last call returned
    driver,     \* BrowserUseTool._driver
    tabs,       \* BrowserUseTool._tabs: its keys, in the dict's order
    current_tab_id,  \* BrowserUseTool._current_tab_id
    browser_result,  \* BrowserUseTool: the action of the last _run call and
                     \* the success it returned
    reason,          \* TerminateTool._run's reason
    final_result,    \* TerminateTool._run's final_result
    signal,          \* the string under test: what _run returned, or another
    is_signal,       \* what is_termination_signal returned for it
    extracted        \* what extract_final_result returned for it

\* the state of WebSearchTool and of its _run
runVars == <<preferred_arg, preferred_engine, engine_order, consulted,
             run_results, formatted_results, formatted_text>>

\* the state of core/config.py's Config and of the threads that use it
configVars == <<tpc, calls_left, cfg_instance, created, cfg_lock,
                cfg_initialized, init_loads, load_after_init, llm_instance,
                obtained, got_llm>>

\* the session ids of a WebSearchAgent over several calls
sessionVars == <<generated, uses>>

\* the state of tools/terminal.py's TerminalTool
terminalVars == <<sessions, submitted, ran, returned>>

\* the state of tools/browser.py's BrowserUseTool
browserVars == <<driver, tabs, current_tab_id, browser_result>>

\* the state of tools/terminate.py's TerminateTool
terminateVars == <<reason, final_result, signal, is_signal, extracted>>

\* the state of what follows Config in this module
laterVars == <<sessionVars, terminalVars, browserVars, terminateVars>>

\* the state of what is not the pipeline or a search engine adapter
restVars == <<runVars, configVars, laterVars>>

\* the state of the tools of src/tools
toolVars == <<engine, max_results, engine_results, provider_failed, restVars>>

vars == <<pc, strategy, queries, evaluation, complete, session_arg,
          session_id, i, results, combined, raised_at, history, saved,
          calls, toolVars>>

None == "None"

\* what is not the run's input, before the run
Fresh ==
    /\ queries = None
    /\ complete = None
    /\ i = 0
    /\ results = <<>>
    /\ combined = None
    /\ raised_at = None
    /\ history = <<>>
    /\ saved = {}
    /\ calls = <<>>

\* no search engine adapter is in use
AdapterIdle ==
    /\ engine = None
    /\ max_results = 0
    /\ engine_results = <<>>
    /\ provider_failed = FALSE

\* no WebSearchTool is in use
RunIdle ==
    /\ preferred_arg = None
    /\ preferred_engine = None
    /\ engine_order = <<>>
    /\ consulted = <<>>
    /\ run_results = <<>>
    /\ formatted_results = <<>>
    /\ formatted_text = None

\* no thread uses Config
ConfigIdle ==
    /\ tpc = <<>>
    /\ calls_left = <<>>
    /\ cfg_instance = 0
    /\ created = 0
    /\ cfg_lock = 0
    /\ cfg_initialized = FALSE
    /\ init_loads = 0
    /\ load_after_init = FALSE
    /\ llm_instance = None
    /\ obtained = <<>>
    /\ got_llm = <<>>

\* no call has been made on the agent
SessionIdle ==
    /\ generated = 0
    /\ uses = <<>>

\* no TerminalTool has run
TerminalIdle ==
    /\ sessions = <<>>
    /\ submitted = <<>>
    /\ ran = <<>>
    /\ returned = None

\* _current_tab_id = None
NoTab == -1

\* the BrowserUseTool as constructed
BrowserIdle ==
    /\ driver = None
    /\ tabs = <<>>
    /\ current_tab_id = NoTab
    /\ browser_result = None

\* no TerminateTool call has been made
TerminateIdle ==
    /\ reason = None
    /\ final_result = None
    /\ signal = None
    /\ is_signal = None
    /\ extracted = None

\* nothing of what follows Config in this module is in use
LaterIdle == SessionIdle /\ TerminalIdle /\ BrowserIdle /\ TerminateIdle

\* nothing but the pipeline or a search engine adapter is in use
RestIdle == RunIdle /\ ConfigIdle /\ LaterIdle

\* no tool is in use
ToolIdle == AdapterIdle /\ RestIdle

\* no pipeline is running
PipelineIdle ==
    /\ strategy = <<>>
    /\ evaluation = None
    /\ session_arg = None
    /\ session_id = None
    /\ Fresh

(***************************************************************************)
(* The normalizer alone: a strategy text is drawn, then normalized.        *)
(***************************************************************************)
InitExtract ==
    /\ pc = "strategy"
    /\ strategy \in StrategyTexts
    /\ evaluation = None
    /\ session_arg = None
    /\ session_id = None
    /\ Fresh
    /\ ToolIdle

\* search_queries = self._extract_search_queries(strategy), for a str and
\* for a message object
ExtractQueries ==
    /\ pc = "strategy"
    /\ \E obj \in {Str(strategy), Message(strategy)} :
          queries' = extract_search_queries(obj)
    /\ pc' = "queries"
    /\ UNCHANGED <<toolVars, calls, strategy, evaluation, complete, session_arg, session_id,
                   i, results, combined, raised_at, history, saved>>

SpecExtract == InitExtract /\ [][ExtractQueries]_vars

(***************************************************************************)
(* The classifier alone: an evaluation text is drawn, then classified.     *)
(***************************************************************************)
InitClassify ==
    /\ pc = "evaluation"
    /\ evaluation \in EvaluationTexts
    /\ strategy = None
    /\ session_arg = None
    /\ session_id = None
    /\ Fresh
    /\ ToolIdle

\* search_complete = self._is_search_complete(evaluation), for a str and for
\* a message object
Classify ==
    /\ pc = "evaluation"
    /\ \E obj \in {Str(evaluation), Message(evaluation)} :
          complete' = is_search_complete(obj)
    /\ pc' = "verdict"
    /\ UNCHANGED <<toolVars, calls, strategy, queries, evaluation, session_arg, session_id,
                   i, results, combined, raised_at, history, saved>>

SpecClassify == InitClassify /\ [][Classify]_vars

(***************************************************************************)
(* WebSearchAgent.execute_search_strategy: one invocation, a step for each *)
(* call of a collaborator (the structured search chain, the search tool,   *)
(* the LLM), each of which returns or raises.                              *)
(***************************************************************************)
\* strategy texts of one, two and five queries
PipelineStrategies == {
    <<"J","u","s","t"," ","c","h","e","c","k"," ","\"","q","u","a","n","t","u","m"," ","c","o","m","p","u","t","i","n","g"," ","b","r","e","a","k","t","h","r","o","u","g","h","s","\""," ","p","l","e","a","s","e">>,
    <<"1","."," ","S","e","a","r","c","h"," ","f","o","r"," ","r","e","c","e","n","t"," ","A","I"," ","s","a","f","e","t","y"," ","p","a","p","e","r","s","\n","2","."," ","L","o","o","k"," ","u","p"," ","A","I"," ","s","a","f","e","t","y"," ","f","u","n","d","i","n","g"," ","2","0","2","4">>,
    <<"q","u","e","r","y",":"," ","a","b","c","d","e","f","\n","-"," ","b","c","d","e","f","g","\n","q","u","e","r","y",":"," ","a","b","c","d","e","f","\n","-"," ","b","c","d","e","f","g","\n","q","u","e","r","y",":"," ","a","b","c","d","e","f","\n","-"," ","b","c","d","e","f","g">> }

\* what the evaluation LLM call may answer
PipelineEvaluations == {
    <<"T","h","e","r","e"," ","i","s"," ","i","n","s","u","f","f","i","c","i","e","n","t"," ","i","n","f","o","r","m","a","t","i","o","n",";"," ","a","d","d","i","t","i","o","n","a","l"," ","s","e","a","r","c","h"," ","n","e","e","d","e","d"," ","f","o","r"," ","X">>,
    <<"T","h","e"," ","r","e","s","u","l","t","s"," ","a","d","e","q","u","a","t","e","l","y"," ","a","n","s","w","e","r"," ","t","h","e"," ","q","u","e","r","y","."," ">>,
    <<"S","E","A","R","C","H"," ","C","O","M","P","L","E","T","E">>,
    <<"A","D","D","I","T","I","O","N","A","L"," ","S","E","A","R","C","H","E","S"," ","N","E","E","D","E","D">> }

\* what the search tool may return: text of hits, or nothing
ProviderTexts == {"raw results", ""}

\* the session_id argument: absent, empty, or the caller's identifier
SessionArgs == {None, "", "caller"}

\* what get_session_id() of memory/chat_history.py returns
NewSessionId == "generated"

\* Python's truth value of an Optional[str]
Truthy(s) == s # None /\ s # ""

\* _get_session_id: self._session_id after the call
get_session_id(current) == IF ~Truthy(current) THEN NewSessionId ELSE current

Init ==
    /\ pc = "start"
    /\ strategy \in PipelineStrategies
    /\ session_arg \in SessionArgs
    /\ session_id \in {None, "earlier"}
    /\ evaluation = None
    /\ Fresh
    /\ ToolIdle

\* lines 144-154: the session id is set or created, the queries extracted
Begin ==
    /\ pc = "start"
    /\ calls' = Append(calls, <<"extract", 0, "returned">>)
    /\ session_id' = IF Truthy(session_arg) THEN session_arg
                     ELSE get_session_id(session_id)
    /\ \E obj \in {Str(strategy), Message(strategy)} :
          queries' = extract_search_queries(obj)
    /\ i' = 1
    /\ results' = <<>>
    /\ pc' = IF queries' = <<>> THEN "synthesize" ELSE "search"
    /\ UNCHANGED <<toolVars, strategy, evaluation, complete, session_arg, combined,
                   raised_at, history, saved>>

\* Appended that leaves the loop after the first query
Appended_first_only(result) ==
    /\ results' = Append(results,
                    [query |-> queries[i], result |-> result, number |-> i])
    /\ i' = i + 1
    /\ pc' = "synthesize"

\* Appended that numbers the searches from 0
Appended_from_zero(result) ==
    /\ results' = Append(results,
                    [query |-> queries[i], result |-> result, number |-> i - 1])
    /\ i' = i + 1
    /\ pc' = IF i = Len(queries) THEN "synthesize" ELSE "search"

\* all_search_results.append({...}) and the loop's next step
Appended(result) ==
    /\ results' = Append(results,
                    [query |-> queries[i], result |-> result, number |-> i])
    /\ i' = i + 1
    /\ pc' = IF i = Len(queries) THEN "synthesize" ELSE "search"

\* search_data.model_dump(): what the structured chain makes of the hits
StructuredResult ==
    [main_findings |-> "summary", key_points |-> <<"point">>,
     sources |-> <<"source">>, confidence |-> 8]

\* SearchChainOk that records the session id among the result's sources
SearchChainOk_session_in_result ==
    /\ pc = "search"
    /\ history' = history \o <<"user", "ai">>
    /\ saved' = saved \cup {<<get_session_id(session_id),
                              "search_results.json", StructuredResult>>}
    /\ Appended([StructuredResult EXCEPT !.sources = <<session_id>>])
    /\ \E search_results \in ProviderTexts :
          calls' = Append(calls, <<"search", i, search_results>>)
    /\ UNCHANGED <<toolVars, strategy, queries, evaluation, complete, session_arg,
                   session_id, combined, raised_at>>

\* SearchChainOk that takes a new session id for each query
SearchChainOk_new_session ==
    /\ pc = "search"
    /\ history' = history \o <<"user", "ai">>
    /\ session_id' = NewSessionId
    /\ saved' = saved \cup {<<session_id', "search_results.json",
                              StructuredResult>>}
    /\ Appended(StructuredResult)
    /\ \E search_results \in ProviderTexts :
          calls' = Append(calls, <<"search", i, search_results>>)
    /\ UNCHANGED <<toolVars, strategy, queries, evaluation, complete, session_arg,
                   combined, raised_at>>

\* search, lines 70-88: the structured chain returns; the result is saved
SearchChainOk ==
    /\ pc = "search"
    /\ history' = history \o <<"user", "ai">>
    /\ saved' = saved \cup {<<get_session_id(session_id),
                              "search_results.json", StructuredResult>>}
    /\ Appended(StructuredResult)
    /\ \E search_results \in ProviderTexts :
          calls' = Append(calls, <<"search", i, search_results>>)
    /\ UNCHANGED <<toolVars, strategy, queries, evaluation, complete, session_arg,
                   session_id, combined, raised_at>>

\* search, lines 70-92: the structured chain raises (the search tool, the
\* LLM or the parser in it): the except branch is entered
SearchChainFail ==
    /\ pc = "search"
    /\ calls' = Append(calls, <<"search", i, "raised">>)
    /\ history' = Append(history, "user")
    /\ pc' = "fallback"
    /\ UNCHANGED <<toolVars, strategy, queries, evaluation, complete, session_arg,
                   session_id, i, results, combined, raised_at, saved>>

\* search, lines 94-104: the plain search of the except branch returns
SearchFallbackOk ==
    /\ pc = "fallback"
    /\ \E search_results \in ProviderTexts :
          /\ Appended([main_findings |-> search_results, key_points |-> <<>>,
                       sources |-> <<>>, confidence |-> 5])
          /\ calls' = Append(calls, <<"fallback", i, search_results>>)
    /\ history' = Append(history, "ai")
    /\ UNCHANGED <<toolVars, strategy, queries, evaluation, complete, session_arg,
                   session_id, combined, raised_at, saved>>

\* search, line 95: the plain search of the except branch raises too; no
\* handler encloses it, the exception leaves search and
\* execute_search_strategy
SearchFallbackFail ==
    /\ pc = "fallback"
    /\ calls' = Append(calls, <<"fallback", i, "raised">>)
    /\ pc' = "raised"
    /\ raised_at' = "search"
    /\ UNCHANGED <<toolVars, strategy, queries, evaluation, complete, session_arg,
                   session_id, i, results, combined, history, saved>>

\* SynthesizeOk that needs at least one non-empty finding
SynthesizeOk_needs_findings ==
    /\ pc = "synthesize"
    /\ \E k \in 1..Len(results) : results[k].result.main_findings # ""
    /\ calls' = Append(calls, <<"synthesize", 0, "returned">>)
    /\ combined' = [text |-> "combined text",
                    num_searches |-> Len(results),
                    search_queries |->
                        [k \in 1..Len(results) |-> results[k].query]]
    /\ pc' = "evaluate"
    /\ UNCHANGED <<toolVars, strategy, queries, evaluation, complete, session_arg,
                   session_id, i, results, raised_at, history, saved>>

\* _create_combined_results, lines 241-281: the LLM returns
SynthesizeOk ==
    /\ pc = "synthesize"
    /\ calls' = Append(calls, <<"synthesize", 0, "returned">>)
    /\ combined' = [text |-> "combined text",
                    num_searches |-> Len(results),
                    search_queries |->
                        [k \in 1..Len(results) |-> results[k].query]]
    /\ pc' = "evaluate"
    /\ UNCHANGED <<toolVars, strategy, queries, evaluation, complete, session_arg,
                   session_id, i, results, raised_at, history, saved>>

\* SynthesizeFail that catches the failure and goes on with an empty answer
SynthesizeFail_degraded ==
    /\ pc = "synthesize"
    /\ calls' = Append(calls, <<"synthesize", 0, "raised">>)
    /\ combined' = [text |-> "",
                    num_searches |-> Len(results),
                    search_queries |->
                        [k \in 1..Len(results) |-> results[k].query]]
    /\ pc' = "evaluate"
    /\ UNCHANGED <<toolVars, strategy, queries, evaluation, complete, session_arg,
                   session_id, i, results, raised_at, history, saved>>

\* _create_combined_results, line 272: the LLM raises
SynthesizeFail ==
    /\ pc = "synthesize"
    /\ calls' = Append(calls, <<"synthesize", 0, "raised">>)
    /\ pc' = "raised"
    /\ raised_at' = "synthesize"
    /\ UNCHANGED <<toolVars, strategy, queries, evaluation, complete, session_arg,
                   session_id, i, results, combined, history, saved>>

\* _evaluate_search_results, lines 283-308: the LLM returns
EvaluateOk ==
    /\ pc = "evaluate"
    /\ calls' = Append(calls, <<"evaluate", 0, "returned">>)
    /\ evaluation' \in PipelineEvaluations
    /\ pc' = "classify"
    /\ UNCHANGED <<toolVars, strategy, queries, complete, session_arg, session_id, i,
                   results, combined, raised_at, history, saved>>

\* _evaluate_search_results, line 303: the LLM raises
EvaluateFail ==
    /\ pc = "evaluate"
    /\ calls' = Append(calls, <<"evaluate", 0, "raised">>)
    /\ pc' = "raised"
    /\ raised_at' = "evaluate"
    /\ UNCHANGED <<toolVars, strategy, queries, evaluation, complete, session_arg,
                   session_id, i, results, combined, history, saved>>

\* Finish that reports complete = true whatever the evaluation says
Finish_always_complete ==
    /\ pc = "classify"
    /\ complete' = TRUE
    /\ saved' = saved \cup
            {<<session_id, "search_strategy_results.json",
               [searches |-> results, combined_results |-> combined,
                evaluation |-> evaluation, complete |-> complete']>>}
    /\ pc' = "returned"
    /\ UNCHANGED <<toolVars, calls, strategy, queries, evaluation, session_arg, session_id, i,
                   results, combined, raised_at, history>>

\* Finish that starts another round of searches on complete = false
Finish_search_again ==
    /\ pc = "classify"
    /\ \E obj \in {Str(evaluation), Message(evaluation)} :
          complete' = is_search_complete(obj)
    /\ saved' = saved \cup
            {<<session_id, "search_strategy_results.json",
               [searches |-> results, combined_results |-> combined,
                evaluation |-> evaluation, complete |-> complete']>>}
    /\ pc' = IF complete' THEN "returned" ELSE "search"
    /\ i' = IF complete' THEN i ELSE 1
    /\ UNCHANGED <<toolVars, calls, strategy, queries, evaluation,
                   session_arg, session_id, results, combined, raised_at,
                   history>>

\* lines 176-198: the verdict, the saved record and the returned package
Finish ==
    /\ pc = "classify"
    /\ \E obj \in {Str(evaluation), Message(evaluation)} :
          complete' = is_search_complete(obj)
    /\ saved' = saved \cup
            {<<session_id, "search_strategy_results.json",
               [searches |-> results, combined_results |-> combined,
                evaluation |-> evaluation, complete |-> complete']>>}
    /\ pc' = "returned"
    /\ UNCHANGED <<toolVars, calls, strategy, queries, evaluation, session_arg, session_id, i,
                   results, combined, raised_at, history>>

\* run_jarvis of examples/jarvis.py, lines 136-146: the caller reads the
\* package and goes on to its final response, whatever the verdict
CallerProceeds ==
    /\ pc = "returned"
    /\ pc' = "caller_done"
    /\ UNCHANGED <<toolVars, calls, strategy, queries, evaluation, complete,
                   session_arg, session_id, i, results, combined, raised_at,
                   history, saved>>

Next ==
    \/ Begin
    \/ SearchChainOk
    \/ SearchChainFail
    \/ SearchFallbackOk
    \/ SearchFallbackFail
    \/ SynthesizeOk
    \/ SynthesizeFail
    \/ EvaluateOk
    \/ EvaluateFail
    \/ Finish
    \/ CallerProceeds

Spec == Init /\ [][Next]_vars

(***************************************************************************)
(* tools/web_search.py: perform_search of the two search engine adapters,  *)
(* one step per statement the provider can fail at.                        *)
(***************************************************************************)
pipelineVars == <<strategy, queries, evaluation, complete, session_arg,
                  session_id, i, results, combined, raised_at, history,
                  saved, calls>>

\* the adapters of WebSearchTool._search_engines
Engines == {"duckduckgo", "google"}

\* what DDGS().text yields: dicts that carry all of the keys, or some
DuckDuckGoHits == {
    [title |-> "T", link |-> "L", body |-> "B"],
    [title |-> "T", body |-> "B"],
    [link |-> "L"] }

\* what googlesearch.search yields: URLs
GoogleHits == {"url1", "url2"}

\* dict.get(key, "")
Get(r, key) == IF key \in DOMAIN r THEN r[key] ELSE ""

\* lines 43-47: the result made of a DuckDuckGo hit
DuckDuckGoResult(r) ==
    [title |-> Get(r, "title"), url |-> Get(r, "link"),
     snippet |-> Get(r, "body")]

\* lines 75-79: the result made of a Google hit
GoogleResult(url) ==
    [title |-> "Google Search Result", url |-> url,
     snippet |-> "No snippet available from Google search API"]

\* perform_search(query, max_results) is called: results = []
InitEngine ==
    /\ pc = "perform_search"
    /\ engine \in Engines
    /\ max_results \in 1..MaxResults
    /\ engine_results = <<>>
    /\ provider_failed = FALSE
    /\ RestIdle
    /\ PipelineIdle

\* lines 41-42, 71-73: DDGS() and text(...), or the import and search(...),
\* give an iterator
OpenOk ==
    /\ pc = "perform_search"
    /\ pc' = "iterate"
    /\ UNCHANGED <<pipelineVars, toolVars>>

\* lines 41-42, 71-73: DDGS(), the import or the call raises
OpenFail ==
    /\ pc = "perform_search"
    /\ provider_failed' = TRUE
    /\ pc' = "except"
    /\ UNCHANGED <<pipelineVars, restVars, engine, max_results, engine_results>>

\* lines 42-47, 73-79: the iterator yields a hit, which is appended
NextHit ==
    /\ pc = "iterate"
    /\ Len(engine_results) < max_results
    /\ \/ /\ engine = "duckduckgo"
          /\ \E r \in DuckDuckGoHits :
                engine_results' = Append(engine_results, DuckDuckGoResult(r))
       \/ /\ engine = "google"
          /\ \E url \in GoogleHits :
                engine_results' = Append(engine_results, GoogleResult(url))
    /\ UNCHANGED <<pipelineVars, restVars, pc, engine, max_results,
                   provider_failed>>

\* lines 42, 73: the iterator raises where a hit was due
NextHitFail ==
    /\ pc = "iterate"
    /\ provider_failed' = TRUE
    /\ pc' = "except"
    /\ UNCHANGED <<pipelineVars, restVars, engine, max_results, engine_results>>

\* lines 42, 73: the iterator is exhausted
Exhausted ==
    /\ pc = "iterate"
    /\ pc' = "return"
    /\ UNCHANGED <<pipelineVars, toolVars>>

\* lines 48-49, 80-81: except Exception prints the error
Except ==
    /\ pc = "except"
    /\ pc' = "return"
    /\ UNCHANGED <<pipelineVars, toolVars>>

\* lines 50, 82: return results
Return ==
    /\ pc = "return"
    /\ pc' = "engine_returned"
    /\ UNCHANGED <<pipelineVars, toolVars>>

NextEngine ==
    \/ OpenOk
    \/ OpenFail
    \/ NextHit
    \/ NextHitFail
    \/ Exhausted
    \/ Except
    \/ Return

SpecEngine == InitEngine /\ [][NextEngine]_vars

(***************************************************************************)
(* tools/web_search.py: WebSearchTool, its constructor and its _run.       *)
(***************************************************************************)
\* the keys of self._search_engines, in the order of the dict
EngineKeys == <<"duckduckgo", "google">>

\* the characters of the keys
KeyText ==
    ("duckduckgo" :> <<"d","u","c","k","d","u","c","k","g","o">>) @@
    ("google" :> <<"g","o","o","g","l","e">>)

\* the preferred_engine arguments: the keys, a key in another case, a name
\* that is no key
PreferredArgs == {
    <<"d","u","c","k","d","u","c","k","g","o">>,
    <<"g","o","o","g","l","e">>,
    <<"G","o","o","g","l","e">>,
    <<"D","U","C","K","D","U","C","K","G","O">>,
    <<"b","i","n","g">> }

\* what perform_search of an engine can return: up to max hits, made into
\* results in the order the provider yielded them
EngineReturns(e, max) ==
    IF e = "duckduckgo"
    THEN TuplesUpTo({DuckDuckGoResult(r) : r \in DuckDuckGoHits}, max)
    ELSE TuplesUpTo({GoogleResult(url) : url \in GoogleHits}, max)

\* lines 136-142: the n-th result, formatted
FormattedResult(n, result) ==
    <<ToString(n), ". ", result.title, "\n",
      "   URL: ", result.url, "\n",
      "   ", result.snippet, "\n">>

FormattedResults(rs) == [n \in 1..Len(rs) |-> FormattedResult(n, rs[n])]

\* line 145
FormattedText(formatted) ==
    IF formatted # <<>> THEN Join(formatted, <<"\n">>)
    ELSE <<"No results found.">>

\* WebSearchTool(preferred_engine) is about to be constructed
InitRun ==
    /\ pc = "WebSearchTool"
    /\ preferred_arg \in PreferredArgs
    /\ preferred_engine = None
    /\ engine_order = <<>>
    /\ consulted = <<>>
    /\ run_results = <<>>
    /\ formatted_results = <<>>
    /\ formatted_text = None
    /\ AdapterIdle
    /\ ConfigIdle
    /\ LaterIdle
    /\ PipelineIdle

\* __init__, lines 92-105
ToolInit ==
    /\ pc = "WebSearchTool"
    /\ preferred_engine' =
          IF \E e \in DOMAIN KeyText : KeyText[e] = lower(preferred_arg)
          THEN CHOOSE e \in DOMAIN KeyText : KeyText[e] = lower(preferred_arg)
          ELSE "duckduckgo"
    /\ pc' = "run"
    /\ UNCHANGED <<pipelineVars, configVars, laterVars, engine, max_results, engine_results,
                   provider_failed, preferred_arg, engine_order, consulted,
                   run_results, formatted_results, formatted_text>>

\* _run(query, max_results), lines 124-126: the order of the engines
RunBegin ==
    /\ pc = "run"
    /\ max_results' \in 1..MaxResults
    /\ engine_order' = <<preferred_engine>>
                       \o SelectSeq(EngineKeys, LAMBDA e : e # preferred_engine)
    /\ run_results' = <<>>
    /\ pc' = "engines"
    /\ UNCHANGED <<pipelineVars, configVars, laterVars, engine, engine_results, provider_failed,
                   preferred_arg, preferred_engine, consulted,
                   formatted_results, formatted_text>>

\* RunEngineBreak without the break: the loop goes on to the next engine
RunEngineBreak_no_break ==
    /\ pc = "engines"
    /\ Len(consulted) < Len(engine_order)
    /\ engine' = engine_order[Len(consulted) + 1]
    /\ engine_results' \in EngineReturns(engine', max_results) \ {<<>>}
    /\ consulted' = Append(consulted, <<engine', engine_results'>>)
    /\ run_results' = engine_results'
    /\ pc' = IF Len(consulted') = Len(engine_order) THEN "format"
             ELSE "engines"
    /\ UNCHANGED <<pipelineVars, configVars, laterVars, max_results, provider_failed, preferred_arg,
                   preferred_engine, engine_order, formatted_results,
                   formatted_text>>

\* lines 127-134 with a return value that is not empty: it is taken and the
\* loop is left
RunEngineBreak ==
    /\ pc = "engines"
    /\ Len(consulted) < Len(engine_order)
    /\ engine' = engine_order[Len(consulted) + 1]
    /\ engine_results' \in EngineReturns(engine', max_results) \ {<<>>}
    /\ consulted' = Append(consulted, <<engine', engine_results'>>)
    /\ run_results' = engine_results'
    /\ pc' = "format"
    /\ UNCHANGED <<pipelineVars, configVars, laterVars, max_results, provider_failed, preferred_arg,
                   preferred_engine, engine_order, formatted_results,
                   formatted_text>>

\* lines 127-131 with an empty return value: the loop goes on
RunEngineEmpty ==
    /\ pc = "engines"
    /\ Len(consulted) < Len(engine_order)
    /\ engine' = engine_order[Len(consulted) + 1]
    /\ engine_results' = <<>>
    /\ consulted' = Append(consulted, <<engine', engine_results'>>)
    /\ pc' = IF Len(consulted') = Len(engine_order) THEN "format"
             ELSE "engines"
    /\ UNCHANGED <<pipelineVars, configVars, laterVars, max_results, provider_failed, preferred_arg,
                   preferred_engine, engine_order, run_results,
                   formatted_results, formatted_text>>

\* lines 136-147: the results are formatted and returned
RunFormat ==
    /\ pc = "format"
    /\ formatted_results' = FormattedResults(run_results)
    /\ formatted_text' = FormattedText(formatted_results')
    /\ pc' = "run_returned"
    /\ UNCHANGED <<pipelineVars, configVars, laterVars, engine, max_results, engine_results,
                   provider_failed, preferred_arg, preferred_engine,
                   engine_order, consulted, run_results>>

NextRun ==
    \/ ToolInit
    \/ RunBegin
    \/ RunEngineBreak
    \/ RunEngineEmpty
    \/ RunFormat

SpecRun == InitRun /\ [][NextRun]_vars

(***************************************************************************)
(* core/config.py: Config, used by several threads. A step is one read or  *)
(* write of a shared attribute, or one acquire or release of Config._lock. *)
(***************************************************************************)
Threads == 1..NumThreads

\* what is not Config's or its threads' state
notConfigVars == <<pc, pipelineVars, engine, max_results, engine_results,
                   provider_failed, runVars, laterVars>>

\* no get_llm call of the thread has returned yet
NoCall == "no call"

\* the threads are about to call Config()
InitConfig ==
    /\ pc = "threads"
    /\ tpc = [t \in Threads |-> "new"]
    /\ calls_left = [t \in Threads |-> MaxCalls]
    /\ cfg_instance = 0
    /\ created = 0
    /\ cfg_lock = 0
    /\ cfg_initialized = FALSE
    /\ init_loads = 0
    /\ load_after_init = FALSE
    /\ llm_instance = None
    /\ obtained = [t \in Threads |-> 0]
    /\ got_llm = [t \in Threads |-> NoCall]
    /\ AdapterIdle
    /\ RunIdle
    /\ LaterIdle
    /\ PipelineIdle

\* thread t goes on to position p
Goto(t, p) == tpc' = [tpc EXCEPT ![t] = p]

\* with cls._lock: the lock is free and t takes it
Acquire(t, from, to) ==
    /\ tpc[t] = from
    /\ cfg_lock = 0
    /\ cfg_lock' = t
    /\ Goto(t, to)
    /\ UNCHANGED <<notConfigVars, calls_left, cfg_instance, created,
                   cfg_initialized, init_loads, load_after_init,
                   llm_instance, obtained, got_llm>>

\* the end of a with block: t gives the lock back
Release(t, from, to) ==
    /\ tpc[t] = from
    /\ cfg_lock = t
    /\ cfg_lock' = 0
    /\ Goto(t, to)
    /\ UNCHANGED <<notConfigVars, calls_left, cfg_instance, created,
                   cfg_initialized, init_loads, load_after_init,
                   llm_instance, obtained, got_llm>>

\* a test of a shared attribute: t goes one way or the other
Test(t, from, cond, then, else) ==
    /\ tpc[t] = from
    /\ Goto(t, IF cond THEN then ELSE else)
    /\ UNCHANGED <<notConfigVars, calls_left, cfg_instance, created, cfg_lock,
                   cfg_initialized, init_loads, load_after_init,
                   llm_instance, obtained, got_llm>>

\* __new__, line 48: if cls._instance is None
NewCheck(t) ==
    Test(t, "new", cfg_instance = 0, "new_lock", "new_return")

\* __new__, line 49
NewLock(t) == Acquire(t, "new_lock", "new_check_locked")

\* __new__, line 50
NewCheckLocked(t) ==
    Test(t, "new_check_locked", cfg_instance = 0, "new_create",
         "new_unlock")

\* __new__, line 51: cls._instance = super().__new__(cls)
NewCreate(t) ==
    /\ tpc[t] = "new_create"
    /\ created' = created + 1
    /\ cfg_instance' = created'
    /\ Goto(t, "new_unlock")
    /\ UNCHANGED <<notConfigVars, calls_left, cfg_lock, cfg_initialized,
                   init_loads, load_after_init, llm_instance, obtained,
                   got_llm>>

\* __new__, the end of the with block of line 49
NewUnlock(t) == Release(t, "new_unlock", "new_return")

\* __new__, line 52: return cls._instance
NewReturn(t) ==
    /\ tpc[t] = "new_return"
    /\ obtained' = [obtained EXCEPT ![t] = cfg_instance]
    /\ Goto(t, "init")
    /\ UNCHANGED <<notConfigVars, calls_left, cfg_instance, created, cfg_lock,
                   cfg_initialized, init_loads, load_after_init,
                   llm_instance, got_llm>>

\* __init__, line 56: if not self._initialized
InitCheck(t) ==
    Test(t, "init", ~cfg_initialized, "init_lock", "ready")

\* __init__, line 57
InitLock(t) == Acquire(t, "init_lock", "init_check_locked")

\* InitCheckLocked without the test of line 58
InitCheckLocked_unchecked(t) ==
    Test(t, "init_check_locked", TRUE, "init_load", "init_unlock")

\* __init__, line 58
InitCheckLocked(t) ==
    Test(t, "init_check_locked", ~cfg_initialized, "init_load",
         "init_unlock")

\* __init__, lines 59-62: the fields are reset and _load_config returns
InitLoadOk(t) ==
    /\ tpc[t] = "init_load"
    /\ llm_instance' = None
    /\ init_loads' = init_loads + 1
    /\ load_after_init' = (load_after_init \/ init_loads > 0)
    /\ Goto(t, "init_set")
    /\ UNCHANGED <<notConfigVars, calls_left, cfg_instance, created, cfg_lock,
                   cfg_initialized, obtained, got_llm>>

\* __init__, lines 59-62, and 101-103: _load_config raises ConfigError, which
\* leaves the with block and Config()
InitLoadFail(t) ==
    /\ tpc[t] = "init_load"
    /\ llm_instance' = None
    /\ load_after_init' = (load_after_init \/ init_loads > 0)
    /\ cfg_lock' = 0
    /\ obtained' = [obtained EXCEPT ![t] = 0]
    /\ Goto(t, "raised")
    /\ UNCHANGED <<notConfigVars, calls_left, cfg_instance, created,
                   cfg_initialized, init_loads, got_llm>>

\* __init__, line 63: self._initialized = True
InitSet(t) ==
    /\ tpc[t] = "init_set"
    /\ cfg_initialized' = TRUE
    /\ Goto(t, "init_unlock")
    /\ UNCHANGED <<notConfigVars, calls_left, cfg_instance, created, cfg_lock,
                   init_loads, load_after_init, llm_instance, obtained,
                   got_llm>>

\* __init__, the end of the with block of line 57: Config() has returned
InitUnlock(t) == Release(t, "init_unlock", "ready")

\* the thread calls get_llm or reload on its instance
Call(t) ==
    /\ tpc[t] = "ready"
    /\ calls_left[t] > 0
    /\ calls_left' = [calls_left EXCEPT ![t] = @ - 1]
    /\ \E callee \in {"get_llm", "reload"} : Goto(t, callee)
    /\ UNCHANGED <<notConfigVars, cfg_instance, created, cfg_lock,
                   cfg_initialized, init_loads, load_after_init,
                   llm_instance, obtained, got_llm>>

\* get_llm, line 124: if self._llm_instance is None
GetCheck(t) ==
    Test(t, "get_llm", llm_instance = None, "get_lock", "get_return")

\* get_llm, line 125
GetLock(t) == Acquire(t, "get_lock", "get_check_locked")

\* get_llm, line 126
GetCheckLocked(t) ==
    Test(t, "get_check_locked", llm_instance = None, "get_create",
         "get_unlock")

\* get_llm, lines 127-134: self._llm_instance = model.get_llm()
GetCreate(t) ==
    /\ tpc[t] = "get_create"
    /\ llm_instance' = "llm"
    /\ Goto(t, "get_unlock")
    /\ UNCHANGED <<notConfigVars, calls_left, cfg_instance, created, cfg_lock,
                   cfg_initialized, init_loads, load_after_init, obtained,
                   got_llm>>

\* get_llm, the end of the with block of line 125
GetUnlock(t) == Release(t, "get_unlock", "get_return")

\* get_llm, line 135: return self._llm_instance, read when it is returned
GetReturn(t) ==
    /\ tpc[t] = "get_return"
    /\ got_llm' = [got_llm EXCEPT ![t] = llm_instance]
    /\ Goto(t, "ready")
    /\ UNCHANGED <<notConfigVars, calls_left, cfg_instance, created, cfg_lock,
                   cfg_initialized, init_loads, load_after_init,
                   llm_instance, obtained>>

\* reload, line 107
ReloadLock(t) == Acquire(t, "reload", "reload_load")

\* reload, line 108: _load_config returns
ReloadLoadOk(t) ==
    Test(t, "reload_load", TRUE, "reload_reset", "reload_reset")

\* reload, line 108, and 101-103: _load_config raises ConfigError, which
\* leaves the with block and reload
ReloadLoadFail(t) == Release(t, "reload_load", "ready")

\* reload, line 109: self._llm_instance = None
ReloadReset(t) ==
    /\ tpc[t] = "reload_reset"
    /\ llm_instance' = None
    /\ Goto(t, "reload_unlock")
    /\ UNCHANGED <<notConfigVars, calls_left, cfg_instance, created, cfg_lock,
                   cfg_initialized, init_loads, load_after_init, obtained,
                   got_llm>>

\* reload, the end of the with block of line 107
ReloadUnlock(t) == Release(t, "reload_unlock", "ready")

NextConfig ==
    \E t \in Threads :
        \/ NewCheck(t)
        \/ NewLock(t)
        \/ NewCheckLocked(t)
        \/ NewCreate(t)
        \/ NewUnlock(t)
        \/ NewReturn(t)
        \/ InitCheck(t)
        \/ InitLock(t)
        \/ InitCheckLocked(t)
        \/ InitLoadOk(t)
        \/ InitLoadFail(t)
        \/ InitSet(t)
        \/ InitUnlock(t)
        \/ Call(t)
        \/ GetCheck(t)
        \/ GetLock(t)
        \/ GetCheckLocked(t)
        \/ GetCreate(t)
        \/ GetUnlock(t)
        \/ GetReturn(t)
        \/ ReloadLock(t)
        \/ ReloadLoadOk(t)
        \/ ReloadLoadFail(t)
        \/ ReloadReset(t)
        \/ ReloadUnlock(t)

SpecConfig == InitConfig /\ [][NextConfig]_vars

(***************************************************************************)
(* agents/web_search_agent.py: the session id of one WebSearchAgent over   *)
(* a sequence of search, answer_question and execute_search_strategy       *)
(* calls; every get_session_id() call makes an id of its own.              *)
(***************************************************************************)
\* what is not the agent's session state
notSessionVars == <<pc, strategy, queries, evaluation, complete, i, results,
                    combined, raised_at, history, saved, calls, engine,
                    max_results, engine_results, provider_failed, runVars,
                    configVars, terminalVars, browserVars, terminateVars>>

\* the session ids a caller passes
CallerIds == {"caller_a", "caller_b"}

\* the n-th value of get_session_id() of memory/chat_history.py
GeneratedId(n) == "generated_" \o ToString(n)

\* the agent has been constructed: self._session_id = None
InitSession ==
    /\ pc = "agent"
    /\ session_id = None
    /\ session_arg = None
    /\ generated = 0
    /\ uses = <<>>
    /\ strategy = <<>>
    /\ evaluation = None
    /\ Fresh
    /\ AdapterIdle
    /\ RunIdle
    /\ ConfigIdle
    /\ TerminalIdle
    /\ BrowserIdle
    /\ TerminateIdle

\* _get_session_id with an id made whatever is stored
MakesId_always(current) == TRUE

\* _get_session_id, line 62: if not self._session_id
MakesId(current) == ~Truthy(current)

\* _get_session_id, lines 62-66: what it returns, which is what is stored
\* after it
GetSessionId(current, made) ==
    IF MakesId(current) THEN GeneratedId(made + 1) ELSE current

\* the ids made after _get_session_id
MadeAfter(current, made) == IF MakesId(current) THEN made + 1 ELSE made

\* search(query), lines 70-71: the history is that of _get_session_id()'s id,
\* and so is the path of search_results.json (line 87)
AgentSearch ==
    /\ Len(uses) < MaxAgentCalls
    /\ session_arg' = None
    /\ session_id' = GetSessionId(session_id, generated)
    /\ generated' = MadeAfter(session_id, generated)
    /\ uses' = Append(uses, [call |-> "search", arg |-> None,
                             searched |-> session_id',
                             saved_under |-> session_id',
                             stored |-> session_id'])
    /\ UNCHANGED notSessionVars

\* answer_question(question), lines 108-127: session_id =
\* self._get_session_id(), then self.search(question), then the answer is
\* saved under session_id
AgentAnswer ==
    /\ Len(uses) < MaxAgentCalls
    /\ session_arg' = None
    /\ LET local == GetSessionId(session_id, generated)
           made == MadeAfter(session_id, generated)
       IN  /\ session_id' = GetSessionId(local, made)
           /\ generated' = MadeAfter(local, made)
           /\ uses' = Append(uses, [call |-> "answer_question", arg |-> None,
                                    searched |-> session_id',
                                    saved_under |-> local,
                                    stored |-> session_id'])
    /\ UNCHANGED notSessionVars

\* execute_search_strategy(query, strategy, session_id), lines 144-148, the
\* searches of lines 160-162 and the save of line 187
AgentExecute ==
    /\ Len(uses) < MaxAgentCalls
    /\ session_arg' \in {None, ""} \cup CallerIds
    /\ LET stored == IF Truthy(session_arg') THEN session_arg'
                     ELSE GetSessionId(session_id, generated)
           made == IF Truthy(session_arg') THEN generated
                   ELSE MadeAfter(session_id, generated)
           local == stored
       IN  /\ session_id' = GetSessionId(stored, made)
           /\ generated' = MadeAfter(stored, made)
           /\ uses' = Append(uses, [call |-> "execute_search_strategy",
                                    arg |-> session_arg',
                                    searched |-> session_id',
                                    saved_under |-> local,
                                    stored |-> session_id'])
    /\ UNCHANGED notSessionVars

NextSession ==
    \/ AgentSearch
    \/ AgentAnswer
    \/ AgentExecute

SpecSession == InitSession /\ [][NextSession]_vars

(***************************************************************************)
(* tools/terminal.py: TerminalTool._run, called on several tool instances. *)
(***************************************************************************)
\* what is not TerminalTool's state
notTerminalVars == <<pc, pipelineVars, engine, max_results, engine_results,
                     provider_failed, runVars, configVars, sessionVars,
                     browserVars, terminateVars>>

\* the TerminalTool instances
Tools == {"tool_1", "tool_2"}

\* the session_id arguments
TerminalSessions == {"default", "other"}

\* the command arguments: the empty command and two others
Commands == {"", "cmd_a", "cmd_b"}

\* _sessions with every instance holding a dict of its own
Holder_per_instance(tool) == tool

\* line 15: _sessions is an attribute of the class, which self._sessions
\* reads on every instance
Holder(tool) == "TerminalTool"

\* no TerminalTool._run call has been made
InitTerminal ==
    /\ pc = "terminal"
    /\ sessions = <<>>
    /\ submitted = <<>>
    /\ ran = <<>>
    /\ returned = None
    /\ AdapterIdle
    /\ RunIdle
    /\ ConfigIdle
    /\ SessionIdle
    /\ BrowserIdle
    /\ TerminateIdle
    /\ PipelineIdle

\* lines 38-59: the session is created when new, the command is appended to
\* its history and to its script file
WithCommand(key, command) ==
    LET old == IF key \in DOMAIN sessions THEN sessions[key]
               ELSE [history |-> <<>>, script_file |-> <<>>]
        new == [history |-> Append(old.history, command),
                script_file |-> Append(old.script_file, command)]
    IN  [k \in DOMAIN sessions \cup {key} |->
            IF k = key THEN new ELSE sessions[k]]

\* bash on a script of set -e and the commands: the commands run in order,
\* ok of them exit with 0, and the next one, if any, is the last to run
ShellRun(script, ok) ==
    [n \in 1..(IF ok < Len(script) THEN ok + 1 ELSE ok) |->
        <<script[n], n <= ok>>]

\* lines 29-35: no command
RunNoCommand ==
    /\ Len(submitted) < MaxTerminalCalls
    /\ \E tool \in Tools, session \in TerminalSessions :
          submitted' = Append(submitted, [tool |-> tool, session_id |-> session,
                                          command |-> ""])
    /\ ran' = <<>>
    /\ returned' = [success |-> FALSE, message |-> "No command provided",
                    command_history |-> None]
    /\ UNCHANGED <<notTerminalVars, sessions>>

\* lines 38-78: the script is run to its end or to the first command that
\* exits with another code than 0
RunScript ==
    /\ Len(submitted) < MaxTerminalCalls
    /\ \E tool \in Tools, session \in TerminalSessions,
          command \in Commands \ {""} :
          LET key == <<Holder(tool), session>>
          IN  /\ submitted' = Append(submitted,
                                 [tool |-> tool, session_id |-> session,
                                  command |-> command])
              /\ sessions' = WithCommand(key, command)
              /\ \E ok \in 0..Len(sessions'[key].script_file) :
                    /\ ran' = ShellRun(sessions'[key].script_file, ok)
                    /\ returned' =
                          [success |-> ok = Len(sessions'[key].script_file),
                           message |->
                              IF ok = Len(sessions'[key].script_file)
                              THEN "Command executed successfully"
                              ELSE "Command failed with return code",
                           command_history |-> sessions'[key].history]
    /\ UNCHANGED notTerminalVars

\* lines 38-69 and 80-88: the script is killed at the timeout, while one of
\* its commands runs
RunTimeout ==
    /\ Len(submitted) < MaxTerminalCalls
    /\ \E tool \in Tools, session \in TerminalSessions,
          command \in Commands \ {""} :
          LET key == <<Holder(tool), session>>
          IN  /\ submitted' = Append(submitted,
                                 [tool |-> tool, session_id |-> session,
                                  command |-> command])
              /\ sessions' = WithCommand(key, command)
              /\ \E ok \in 0..(Len(sessions'[key].script_file) - 1) :
                    ran' = ShellRun(sessions'[key].script_file, ok)
              /\ returned' = [success |-> FALSE,
                              message |-> "Command timed out",
                              command_history |-> sessions'[key].history]
    /\ UNCHANGED notTerminalVars

NextTerminal ==
    \/ RunNoCommand
    \/ RunScript
    \/ RunTimeout

SpecTerminal == InitTerminal /\ [][NextTerminal]_vars

(***************************************************************************)
(* tools/browser.py: BrowserUseTool's tab actions, each through _run.  A   *)
(* call on the driver either returns or raises.                            *)
(***************************************************************************)
\* what is not BrowserUseTool's state
notBrowserVars == <<pc, pipelineVars, engine, max_results, engine_results,
                    provider_failed, runVars, configVars, sessionVars,
                    terminalVars, terminateVars>>

\* the tab_id arguments
TabIds == 0..MaxTabId

\* the keys of a dict as a set
Keys(t) == {t[n] : n \in DOMAIN t}

\* del dict[key]
Without(t, key) == SelectSeq(t, LAMBDA k : k # key)

\* the tool's fields
Browser(d, t, c) == [driver |-> d, tabs |-> t, current_tab_id |-> c]

\* the fields now
BrowserNow == Browser(driver, tabs, current_tab_id)

\* the BrowserUseTool as constructed, no call made
InitBrowser ==
    /\ pc = "browser"
    /\ BrowserIdle
    /\ AdapterIdle
    /\ RunIdle
    /\ ConfigIdle
    /\ SessionIdle
    /\ TerminalIdle
    /\ TerminateIdle
    /\ PipelineIdle

\* lines 59-89, _ensure_driver_initialized: what it returns and the fields
\* it leaves, for each driver call that may raise
Ensured(b) ==
    IF b.driver # None
    THEN {[ok |-> TRUE, b |-> b]}
    ELSE {\* line 74: webdriver.Chrome raises
          [ok |-> FALSE, b |-> b],
          \* line 77: set_window_size raises
          [ok |-> FALSE, b |-> Browser("Chrome", b.tabs, b.current_tab_id)],
          \* line 81: current_window_handle raises, after line 80
          [ok |-> FALSE, b |-> Browser("Chrome", b.tabs, 0)],
          [ok |-> TRUE, b |-> Browser("Chrome", <<0>>, 0)]}

\* line 430
NewTabId(t) ==
    IF t # <<>> THEN (CHOOSE k \in Keys(t) : \A o \in Keys(t) : o <= k) + 1
    ELSE 0

\* lines 420-446, _new_tab
NewTabOutcomes(b) ==
    {\* lines 424-427: new_window or current_window_handle raises
     [success |-> FALSE, b |-> b]}
    \cup
    {\* lines 430-440: the tab is stored and made current; _navigate
     \* returns success or not, or raises
     [success |-> ok,
      b |-> Browser(b.driver, Append(b.tabs, NewTabId(b.tabs)),
                    NewTabId(b.tabs))] : ok \in BOOLEAN}

\* lines 448-475, _switch_tab
SwitchTabOutcomes(b, tab_id) ==
    IF tab_id \notin Keys(b.tabs)
    THEN {[success |-> FALSE, b |-> b]}
    ELSE {\* line 460: switch_to.window raises
          [success |-> FALSE, b |-> b],
          \* lines 467-468: title or current_url raises
          [success |-> FALSE, b |-> Browser(b.driver, b.tabs, tab_id)],
          [success |-> TRUE, b |-> Browser(b.driver, b.tabs, tab_id)]}

\* lines 477-520, _close_tab
CloseTabOutcomes(b) ==
    LET left == Without(b.tabs, b.current_tab_id)
    IN  {\* line 484: close raises
         [success |-> FALSE, b |-> b]}
        \cup
        (IF left # <<>>
         THEN {\* line 493: switch_to.window raises, after line 488
               [success |-> FALSE,
                b |-> Browser(b.driver, left, b.current_tab_id)],
               \* lines 500-501: title or current_url raises
               [success |-> FALSE, b |-> Browser(b.driver, left, left[1])],
               [success |-> TRUE, b |-> Browser(b.driver, left, left[1])]}
         ELSE {[success |-> TRUE, b |-> Browser(b.driver, left, NoTab)]})

\* the fields and the result a call leaves
Leaves(action, outcome) ==
    /\ driver' = outcome.b.driver
    /\ tabs' = outcome.b.tabs
    /\ current_tab_id' = outcome.b.current_tab_id
    /\ browser_result' = [action |-> action, success |-> outcome.success]
    /\ UNCHANGED notBrowserVars

\* lines 120-125: the driver could not be initialized
RunNoDriver ==
    \E action \in {"new_tab", "switch_tab", "close_tab"} :
       \E e \in Ensured(BrowserNow) :
          /\ ~e.ok
          /\ Leaves(action, [success |-> FALSE, b |-> e.b])

\* lines 145-146
RunNewTab ==
    \E e \in Ensured(BrowserNow) :
       /\ e.ok
       /\ NewTabId(e.b.tabs) <= MaxTabId
       /\ \E outcome \in NewTabOutcomes(e.b) : Leaves("new_tab", outcome)

\* lines 147-148
RunSwitchTab ==
    \E e \in Ensured(BrowserNow), tab_id \in TabIds :
       /\ e.ok
       /\ \E outcome \in SwitchTabOutcomes(e.b, tab_id) :
             Leaves("switch_tab", outcome)

\* lines 149-150
RunCloseTab ==
    \E e \in Ensured(BrowserNow) :
       /\ e.ok
       /\ \E outcome \in CloseTabOutcomes(e.b) : Leaves("close_tab", outcome)

NextBrowser ==
    \/ RunNoDriver
    \/ RunNewTab
    \/ RunSwitchTab
    \/ RunCloseTab

SpecBrowser == InitBrowser /\ [][NextBrowser]_vars

(***************************************************************************)
(* tools/terminate.py: TerminateTool._run, is_termination_signal and       *)
(* extract_final_result, on texts of characters.                           *)
(***************************************************************************)
\* what is not TerminateTool's state
notTerminateVars == <<pc, pipelineVars, engine, max_results, engine_results,
                      provider_failed, runVars, configVars, sessionVars,
                      terminalVars, browserVars>>

\* the characters of the reasons and final results: a letter and the newline
TextChars == {"a", "\n"}

\* the texts of up to n characters
RECURSIVE TextsUpTo(_)
TextsUpTo(n) ==
    IF n = 0 THEN {<<>>}
    ELSE TextsUpTo(n - 1)
         \cup {Append(t, c) : t \in {u \in TextsUpTo(n - 1) : Len(u) = n - 1},
                              c \in TextChars}

\* the reason and final_result arguments
Texts == TextsUpTo(MaxTextLen)

\* lines 30 and 42: what opens a termination signal
TASK_TERMINATED ==
    <<"T", "A", "S", "K", "_", "T", "E", "R", "M", "I", "N", "A", "T", "E",
      "D", ":">>

\* lines 30 and 62
FinalResultPrefix ==
    <<"F", "i", "n", "a", "l", " ", "r", "e", "s", "u", "l", "t", ":", " ">>

\* line 29: the result of a call without final_result
TaskCompleted ==
    <<"T", "a", "s", "k", " ", "c", "o", "m", "p", "l", "e", "t", "e", "d",
      " ", "s", "u", "c", "c", "e", "s", "s", "f", "u", "l", "l", "y", ".">>

\* lines 30 and 57
ResultSeparator ==
    <<"\n", "\n">>

\* str.startswith
StartsWithText(t, prefix) ==
    /\ Len(t) >= Len(prefix)
    /\ SubSeq(t, 1, Len(prefix)) = prefix

\* where the separator first is in a text, 0 when nowhere
FirstAt(t, sep) ==
    LET at == {n \in 1..(Len(t) - Len(sep) + 1) :
                  SubSeq(t, n, n + Len(sep) - 1) = sep}
    IN  IF at = {} THEN 0 ELSE CHOOSE n \in at : \A m \in at : n <= m

\* str.split(sep)
RECURSIVE SplitText(_, _)
SplitText(t, sep) ==
    IF FirstAt(t, sep) = 0 THEN <<t>>
    ELSE <<SubSeq(t, 1, FirstAt(t, sep) - 1)>>
         \o SplitText(SubSeq(t, FirstAt(t, sep) + Len(sep), Len(t)), sep)

\* lines 29-30: _run
TerminateRun(r, f) ==
    TASK_TERMINATED \o <<" ">> \o r \o ResultSeparator \o FinalResultPrefix
        \o (IF f # <<>> THEN f ELSE TaskCompleted)

\* line 42: is_termination_signal
IsTerminationSignal(t) == StartsWithText(t, TASK_TERMINATED)

\* lines 54-65: extract_final_result
ExtractFinalResult(t) ==
    IF ~IsTerminationSignal(t) THEN t
    ELSE LET parts == SplitText(t, ResultSeparator)
         IN  IF Len(parts) < 2 THEN <<>>
             ELSE IF StartsWithText(parts[2], FinalResultPrefix)
                  THEN SubSeq(parts[2], 15, Len(parts[2]))
                  ELSE parts[2]

\* the strings handed to extract_final_result that _run did not make: the
\* texts, and the texts after the signal's opening
OtherTexts == Texts \cup {TASK_TERMINATED \o t : t \in Texts}

\* a reason and a final_result are chosen, no call made
InitTerminate ==
    /\ pc = "terminate"
    /\ reason \in Texts
    /\ final_result \in Texts
    /\ signal = None
    /\ is_signal = None
    /\ extracted = None
    /\ AdapterIdle
    /\ RunIdle
    /\ ConfigIdle
    /\ SessionIdle
    /\ TerminalIdle
    /\ BrowserIdle
    /\ PipelineIdle

\* _run(reason, final_result)
Terminate ==
    /\ pc = "terminate"
    /\ pc' = "terminated"
    /\ signal' = TerminateRun(reason, final_result)
    /\ UNCHANGED <<pipelineVars, engine, max_results, engine_results,
                   provider_failed, runVars, configVars, sessionVars,
                   terminalVars, browserVars, reason, final_result,
                   is_signal, extracted>>

\* is_termination_signal and extract_final_result on what _run returned
ExtractSignal ==
    /\ pc = "terminated"
    /\ pc' = "extracted"
    /\ is_signal' = IsTerminationSignal(signal)
    /\ extracted' = ExtractFinalResult(signal)
    /\ UNCHANGED <<pipelineVars, engine, max_results, engine_results,
                   provider_failed, runVars, configVars, sessionVars,
                   terminalVars, browserVars, reason, final_result, signal>>

\* is_termination_signal and extract_final_result on another string
ExtractOther ==
    /\ pc = "terminate"
    /\ pc' = "extracted other"
    /\ \E t \in OtherTexts :
          /\ signal' = t
          /\ is_signal' = IsTerminationSignal(t)
          /\ extracted' = ExtractFinalResult(t)
    /\ UNCHANGED <<pipelineVars, engine, max_results, engine_results,
                   provider_failed, runVars, configVars, sessionVars,
                   terminalVars, browserVars, reason, final_result>>

NextTerminate ==
    \/ Terminate
    \/ ExtractSignal
    \/ ExtractOther

SpecTerminate == InitTerminate /\ [][NextTerminate]_vars

(***************************************************************************)
(* The classifier's claims, under SpecClassify.                            *)
(***************************************************************************)
HasComplete(text) ==
    \E indicator \in complete_indicators : Contains(lower(text), indicator)

HasIncomplete(text) ==
    \E indicator \in incomplete_indicators : Contains(lower(text), indicator)

Scenario4Text ==
    <<"T","h","e","r","e"," ","i","s"," ","i","n","s","u","f","f","i","c","i","e","n","t"," ","i","n","f","o","r","m","a","t","i","o","n",";"," ","a","d","d","i","t","i","o","n","a","l"," ","s","e","a","r","c","h"," ","n","e","e","d","e","d"," ","f","o","r"," ","X">>

\* C1: the evaluator text "There is insufficient information; additional
\* search needed for X" classifies complete = false.
C1_InsufficientInformationIncomplete ==
    (pc = "verdict" /\ evaluation = Scenario4Text) => complete = FALSE

\* C8: an evaluation text that contains both a complete-indicator and an
\* incomplete-indicator (case-insensitively) classifies complete = true.
C8_CompleteCheckedFirst ==
    (pc = "verdict" /\ HasComplete(evaluation) /\ HasIncomplete(evaluation))
        => complete = TRUE

C8_Witness ==
    /\ pc = "verdict"
    /\ HasComplete(evaluation)
    /\ HasIncomplete(evaluation)
    /\ complete = TRUE

\* C9: an evaluation text that contains no complete-indicator and no
\* incomplete-indicator classifies complete = true.
C9_DefaultComplete ==
    (pc = "verdict" /\ ~HasComplete(evaluation) /\ ~HasIncomplete(evaluation))
        => complete = TRUE

C9_Witness ==
    /\ pc = "verdict"
    /\ evaluation = <<"S","E","A","R","C","H"," ","C","O","M","P","L","E","T","E">>
    /\ ~HasComplete(evaluation)
    /\ ~HasIncomplete(evaluation)
    /\ complete = TRUE

\* C10: an evaluation text that contains an incomplete-indicator and no
\* complete-indicator (case-insensitively) classifies complete = false.
C10_IncompleteOnly ==
    (pc = "verdict" /\ HasIncomplete(evaluation) /\ ~HasComplete(evaluation))
        => complete = FALSE

C10_Witness ==
    /\ pc = "verdict"
    /\ evaluation = <<"M","o","r","e"," ","I","n","f","o","r","m","a","t","i","o","n"," ","N","e","e","d","e","d">>
    /\ HasIncomplete(evaluation)
    /\ ~HasComplete(evaluation)
    /\ complete = FALSE

(***************************************************************************)
(* The normalizer's claims, under SpecExtract.                             *)
(***************************************************************************)
MinOf(S) == CHOOSE x \in S : \A y \in S : x <= y

\* the n-th smallest element of a set of numbers
NthOf(S, n) == CHOOSE x \in S : Cardinality({y \in S : y < x}) = n - 1

LinesOf(text) == split(text, <<"\n">>[1])

MarkerLine(l) == has_marker_phrase(strip(l))

BulletLine(l) == ~MarkerLine(l) /\ is_numbered_or_bulleted(strip(l))

\* what is left of a marker line: the text after its first ':' or '-' (the
\* whole line when it has neither), without surrounding quotes and spaces
MarkerPayload(l) == strip_chars(strip_to_delimiter(strip(l)), {"\"", " "})

BulletPayload(l) == strip_chars(strip_bullet(strip(l)), {"\"", " "})

\* the positions of the marker lines whose payload is longer than 5
AcceptedMarker(text) ==
    LET lines == LinesOf(text)
    IN  {k \in 1..Len(lines) :
            MarkerLine(lines[k]) /\ Len(MarkerPayload(lines[k])) > 5}

\* the positions of the bullet lines whose payload is longer than 5
AcceptedBullet(text) ==
    LET lines == LinesOf(text)
    IN  {k \in 1..Len(lines) :
            BulletLine(lines[k]) /\ Len(BulletPayload(lines[k])) > 5}

\* the queries are the payloads of the accepted marker lines, in line order
MarkerQueriesInOrder ==
    LET lines == LinesOf(strategy)
        acc == AcceptedMarker(strategy)
    IN  /\ Len(queries) = Cardinality(acc)
        /\ \A k \in 1..Cardinality(acc) :
              queries[k] = MarkerPayload(lines[NthOf(acc, k)])

Scenario1Text ==
    <<"1","."," ","S","e","a","r","c","h"," ","f","o","r"," ","r","e","c","e","n","t"," ","A","I"," ","s","a","f","e","t","y"," ","p","a","p","e","r","s","\n","2","."," ","L","o","o","k"," ","u","p"," ","A","I"," ","s","a","f","e","t","y"," ","f","u","n","d","i","n","g"," ","2","0","2","4">>

\* C2: the two-line strategy text "1. Search for recent AI safety papers" /
\* "2. Look up AI safety funding 2024" normalizes to exactly
\* ["recent AI safety papers", "AI safety funding 2024"].
C2_Scenario1Payloads ==
    (pc = "queries" /\ strategy = Scenario1Text)
        => queries = << <<"r","e","c","e","n","t"," ","A","I"," ","s","a","f","e","t","y"," ","p","a","p","e","r","s">>,
                        <<"A","I"," ","s","a","f","e","t","y"," ","f","u","n","d","i","n","g"," ","2","0","2","4">> >>

\* C3, as claimed: a strategy text with N lines, 1 <= N <= 5, that match a
\* marker phrase with a payload longer than 5 characters normalizes to
\* exactly N queries, in the order of those lines.
C3_ExactlyNMarkerQueries ==
    (pc = "queries" /\ Cardinality(AcceptedMarker(strategy)) \in 1..5)
        => MarkerQueriesInOrder

\* C3, amended: the same, for a text in which no enumeration/bullet line is
\* accepted besides the N marker lines.
C3_ExactlyNMarkerQueriesNoBullets ==
    (/\ pc = "queries"
     /\ Cardinality(AcceptedMarker(strategy)) \in 1..5
     /\ AcceptedBullet(strategy) = {})
        => MarkerQueriesInOrder

C3_Witness ==
    /\ pc = "queries"
    /\ Cardinality(AcceptedMarker(strategy)) = 5
    /\ AcceptedBullet(strategy) = {}
    /\ Len(LinesOf(strategy)) > 5
    /\ Len(queries) = 5

\* C4: the normalizer returns at most 5 queries, for every strategy text and
\* on every extraction path.
C4_AtMostFiveQueries ==
    pc = "queries" => Len(queries) <= 5

C4_Witness ==
    /\ pc = "queries"
    /\ Cardinality(AcceptedMarker(strategy) \cup AcceptedBullet(strategy)) > 5
    /\ Len(queries) = 5

\* C5, as claimed: every query the normalizer returns is longer than 5
\* characters after trimming.
C5_EveryQueryLongerThanFive ==
    pc = "queries" => \A k \in 1..Len(queries) : Len(strip(queries[k])) > 5

\* C5, amended: when at least one line is accepted by the marker-phrase or
\* the enumeration/bullet rule, every query returned is longer than 5
\* characters and neither starts nor ends with a space or a double quote.
C5_AcceptedQueriesLongerThanFive ==
    (/\ pc = "queries"
     /\ AcceptedMarker(strategy) \cup AcceptedBullet(strategy) # {})
        => \A k \in 1..Len(queries) :
              /\ Len(queries[k]) > 5
              /\ queries[k][1] \notin {"\"", " "}
              /\ queries[k][Len(queries[k])] \notin {"\"", " "}

C5_Witness ==
    /\ pc = "queries"
    /\ AcceptedMarker(strategy) # {}
    /\ AcceptedBullet(strategy) # {}
    /\ \E k \in 1..Len(queries) : Len(queries[k]) = 6

\* the positions of the double quotes of a text
QuotePos(text) == {p \in 1..Len(text) : text[p] = "\""}

\* the next double quote after position p, 0 when there is none
NextQuote(text, p) ==
    IF \E q \in QuotePos(text) : q > p
    THEN MinOf({q \in QuotePos(text) : q > p})
    ELSE 0

\* the opening quotes of the quoted substrings: a double quote, one
\* character or more that are no double quote, a double quote
QuotedStarts(text) == {p \in QuotePos(text) : NextQuote(text, p) > p + 1}

\* the first quoted substring that opens after position p, 0 when none
QuotedAfter(text, p) ==
    IF \E q \in QuotedStarts(text) : q > p
    THEN MinOf({q \in QuotedStarts(text) : q > p})
    ELSE 0

QuotedAt(text, p) == SubSeq(text, p + 1, NextQuote(text, p) - 1)

\* the quoted substring that follows the one opening at c (0: none), the
\* next that opens after c's closing quote
QuotedNext(text, c) ==
    IF c = 0 THEN 0 ELSE QuotedAfter(text, NextQuote(text, c))

\* the first three quoted substrings of a text, in order of appearance, none
\* sharing a quote with another
FirstThreeQuoted(text) ==
    LET c1 == QuotedAfter(text, 0)
        c2 == QuotedNext(text, c1)
        c3 == QuotedNext(text, c2)
    IN  (IF c1 = 0 THEN <<>> ELSE <<QuotedAt(text, c1)>>)
        \o (IF c2 = 0 THEN <<>> ELSE <<QuotedAt(text, c2)>>)
        \o (IF c3 = 0 THEN <<>> ELSE <<QuotedAt(text, c3)>>)

\* a text has a fourth quoted substring
HasFourthQuoted(text) ==
    QuotedNext(text,
        QuotedNext(text, QuotedNext(text, QuotedAfter(text, 0)))) # 0

NoMarkerOrBulletLine(text) ==
    LET lines == LinesOf(text)
    IN  \A k \in 1..Len(lines) :
            /\ ~MarkerLine(lines[k])
            /\ ~is_numbered_or_bulleted(strip(lines[k]))

Scenario2Text == <<"J","u","s","t"," ","c","h","e","c","k"," ","\"","q","u","a","n","t","u","m"," ","c","o","m","p","u","t","i","n","g"," ","b","r","e","a","k","t","h","r","o","u","g","h","s","\""," ","p","l","e","a","s","e">>

\* C6: for a strategy text with no marker-phrase line and no
\* enumeration/bullet line and at least one double-quoted substring, the
\* normalizer returns the quoted substrings in order of appearance, the first
\* 3 at most, and never the raw text; 'Just check "quantum computing
\* breakthroughs" please' gives ["quantum computing breakthroughs"].
C6_QuotedFallback ==
    (/\ pc = "queries"
     /\ NoMarkerOrBulletLine(strategy)
     /\ QuotedStarts(strategy) # {})
        => /\ queries = FirstThreeQuoted(strategy)
           /\ Len(queries) \in 1..3
           /\ \A k \in 1..Len(queries) :
                 queries[k] # strategy /\ queries[k] # strip(strategy)
           /\ strategy = Scenario2Text
                 => queries = << <<"q","u","a","n","t","u","m"," ","c","o","m","p","u","t","i","n","g"," ","b","r","e","a","k","t","h","r","o","u","g","h","s">> >>

\* there is a fourth quoted substring, which is left out
C6_Witness ==
    /\ pc = "queries"
    /\ NoMarkerOrBulletLine(strategy)
    /\ HasFourthQuoted(strategy)
    /\ Len(queries) = 3

\* a bullet line without its leading marker only: the digits and the '.' or
\* ')' after them, or the one bullet character, removed, and what is left
\* trimmed of surrounding white space and quotes
MarkerRemoved(l) ==
    LET line == strip(l)
        k == FirstNotIn(line, 1, Digits)
        rest == IF line[1] \in {"-", "*", "U+2022"}
                THEN SubSeq(line, 2, Len(line))
                ELSE SubSeq(line, k + 1, Len(line))
    IN  strip_chars(rest, WhiteSpace \cup {"\""})

\* C21: a line that begins with an enumeration marker or a bullet character
\* and holds no marker phrase gives the query that is the line without its
\* leading marker, trimmed, when that is longer than 5 characters, and no
\* query otherwise; the payload is not altered.
C21_BulletPayloadUnaltered ==
    pc = "queries" =>
        LET lines == LinesOf(strategy)
        IN  \A k \in 1..MinOf({Len(lines), MaxQueries}) :
               BulletLine(lines[k]) =>
                  /\ Len(MarkerRemoved(lines[k])) > 5
                        => \E n \in 1..Len(queries) :
                              queries[n] = MarkerRemoved(lines[k])
                  /\ (Len(lines) = 1 /\ Len(MarkerRemoved(lines[k])) <= 5)
                        => queries = <<strip(strategy)>>

\* the positions of the lines accepted by either rule
AcceptedLines(text) == AcceptedMarker(text) \cup AcceptedBullet(text)

\* the query of an accepted line: by the marker-phrase rule when the line
\* holds a marker phrase, by the enumeration/bullet rule otherwise
QueryOfLine(l) == IF MarkerLine(l) THEN MarkerPayload(l) ELSE BulletPayload(l)

\* C22: when some line is accepted by the marker-phrase or the
\* enumeration/bullet rule, every accepted line contributes one query (a
\* line matching both rules the marker-phrase rule's only), and the list
\* returned is the first 5 of these queries in line order, duplicates kept.
C22_FirstFiveAcceptedInLineOrder ==
    pc = "queries" =>
        LET lines == LinesOf(strategy)
            acc == AcceptedLines(strategy)
        IN  acc # {} =>
               /\ Len(queries) = MinOf({MaxQueries, Cardinality(acc)})
               /\ \A n \in 1..Len(queries) :
                     queries[n] = QueryOfLine(lines[NthOf(acc, n)])

C22_Witness ==
    /\ pc = "queries"
    /\ Cardinality(AcceptedLines(strategy)) = 6
    /\ Len(queries) = 5
    /\ queries[1] = queries[3]
    /\ queries[1] # queries[2]

\* the text is empty or holds whitespace only
OnlyWhiteSpace(text) == \A a \in 1..Len(text) : text[a] \in WhiteSpace

\* C20: for an empty strategy text, and for one of whitespace only,
\* extract_search_queries returns a list of exactly one element, the trimmed
\* (empty) text.
C20_EmptyTextOneEmptyQuery ==
    (pc = "queries" /\ OnlyWhiteSpace(strategy)) => queries = << <<>> >>

C20_Witness ==
    /\ pc = "queries"
    /\ Len(strategy) > 3
    /\ OnlyWhiteSpace(strategy)
    /\ queries = << <<>> >>

(***************************************************************************)
(* The pipeline's claims, under Spec.                                      *)
(***************************************************************************)
\* C7: during execute_search_strategy the per-query search step never
\* raises, whatever the search provider or the structured chain does: no
\* exception leaves the invocation from the search step.
C7_SearchNeverRaises ==
    raised_at # "search"

\* the calls of one callee, in the order made
CallsOf(callee) == SelectSeq(calls, LAMBDA e : e[1] = callee)

\* the calls of search for query number k
SearchesOf(k) == SelectSeq(calls, LAMBDA e : e[1] = "search" /\ e[2] = k)

\* the position in calls of the first call of a callee, 0 when none
FirstCall(callee) ==
    IF \E a \in 1..Len(calls) : calls[a][1] = callee
    THEN MinOf({a \in 1..Len(calls) : calls[a][1] = callee})
    ELSE 0

\* the search for query number k has come back by position a of calls: its
\* structured chain returned, or the plain search of its except branch did
SearchDoneBy(k, a) ==
    \E b \in 1..(a - 1) :
        /\ calls[b][1] \in {"search", "fallback"}
        /\ calls[b][2] = k
        /\ calls[b][3] # "raised"

\* the invocation has returned its package
Returned == pc \in {"returned", "caller_done"}

\* C11: within one invocation the per-query searches are made one after the
\* other in extraction order, all of them have come back before the
\* synthesis LLM call is made, and the synthesis has come back before the
\* evaluation LLM call is made.
C11_CallsInStageOrder ==
    pc # "start" =>
        /\ \A a \in 1..Len(CallsOf("search")) : CallsOf("search")[a][2] = a
        /\ \A a \in 1..Len(calls) :
              calls[a][1] = "fallback"
                  => calls[a - 1] = <<"search", calls[a][2], "raised">>
        /\ FirstCall("synthesize") # 0
              => /\ \A k \in 1..Len(queries) :
                       SearchDoneBy(k, FirstCall("synthesize"))
                 /\ \A a \in FirstCall("synthesize")..Len(calls) :
                       calls[a][1] \notin {"search", "fallback"}
        /\ FirstCall("evaluate") # 0
              => /\ FirstCall("evaluate") = Len(calls)
                 /\ calls[Len(calls) - 1] = <<"synthesize", 0, "returned">>

C11_Witness ==
    /\ pc = "classify"
    /\ Len(queries) = 5
    /\ Len(CallsOf("fallback")) > 1
    /\ FirstCall("evaluate") = Len(calls)

\* C12: when execute_search_strategy returns, results corresponds to the
\* extracted queries one to one and in order: as many results as queries, 5
\* at most, results[k].query = queries[k], results[k].number = k, and the
\* combined answer records search_queries = queries and num_searches =
\* len(queries).
C12_ResultsMatchQueries ==
    Returned =>
        /\ Len(results) = Len(queries)
        /\ Len(queries) <= 5
        /\ \A k \in 1..Len(results) :
              results[k].query = queries[k] /\ results[k].number = k
        /\ combined.search_queries = queries
        /\ combined.num_searches = Len(queries)

C12_Witness ==
    /\ pc = "returned"
    /\ Len(queries) = 5
    /\ Len(results) = 5
    /\ results[5].number = 5

LLMFailed ==
    \E a \in 1..Len(calls) :
        calls[a] \in {<<"synthesize", 0, "raised">>, <<"evaluate", 0, "raised">>}

\* the records execute_search_strategy has saved
StrategyRecords == {r \in saved : r[2] = "search_strategy_results.json"}

\* C14: when the LLM call of the synthesis stage or of the evaluation stage
\* fails, the failure leaves execute_search_strategy from that stage: nothing
\* is called after it, no package is returned, no verdict is produced and no
\* strategy record is saved.
C14_LLMFailurePropagates ==
    LLMFailed =>
        /\ pc = "raised"
        /\ raised_at = calls[Len(calls)][1]
        /\ calls[Len(calls)][3] = "raised"
        /\ raised_at \in {"synthesize", "evaluate"}
        /\ complete = None
        /\ StrategyRecords = {}

C14_Witness ==
    /\ pc = "raised"
    /\ raised_at = "synthesize"
    /\ Len(results) = 5
    /\ calls[Len(calls)] = <<"synthesize", 0, "raised">>

\* every answer of the search provider so far was empty, and none failed
AllProviderEmpty ==
    /\ \A a \in 1..Len(calls) :
          /\ calls[a][1] = "search" => calls[a][3] \in {"", "raised"}
          /\ calls[a][1] = "fallback" => calls[a][3] = ""
    /\ ~LLMFailed

\* C15: when the search provider answers every extracted query with an empty
\* result and the LLM calls succeed, execute_search_strategy goes through:
\* the searches never raise, the synthesis is called on the empty findings,
\* the package carries a combined answer over all the queries and a verdict,
\* and the verdict is complete = true when the evaluation holds no indicator
\* phrase.
C15_EmptyResultsStillComplete ==
    (pc # "start" /\ AllProviderEmpty) =>
        /\ pc # "raised"
        /\ pc = "synthesize" =>
              /\ Len(results) = Len(queries)
              /\ ENABLED SynthesizeOk
        /\ Returned =>
              /\ combined.num_searches = Len(queries)
              /\ combined.search_queries = queries
              /\ complete \in BOOLEAN
              /\ (~HasComplete(evaluation) /\ ~HasIncomplete(evaluation))
                    => complete = TRUE

C15_Witness ==
    /\ pc = "returned"
    /\ AllProviderEmpty
    /\ Len(queries) = 2
    /\ \A k \in 1..2 : results[k].result.main_findings = ""
    /\ ~HasComplete(evaluation)
    /\ ~HasIncomplete(evaluation)
    /\ complete = TRUE

\* a is b, or b with elements appended
IsPrefix(a, b) == Len(a) <= Len(b) /\ SubSeq(b, 1, Len(a)) = a

\* a step of the search stage
InSearch == pc \in {"search", "fallback"}

\* the step leaves the session id, the chat history and the files as they are
LeavesStateUnchanged ==
    /\ session_id' = session_id
    /\ history' = history
    /\ saved' = saved

\* the step leaves the session id and the earlier results as they are, and
\* only appends messages to the chat history and a search_results.json
OnlyAppends ==
    /\ session_id' = session_id
    /\ session_arg' = session_arg
    /\ queries' = queries
    /\ IsPrefix(results, results')
    /\ IsPrefix(history, history')
    /\ \A a \in (Len(history) + 1)..Len(history') :
          history'[a] \in {"user", "ai"}
    /\ saved \subseteq saved'
    /\ \A r \in saved' \ saved :
          r = <<session_id, "search_results.json",
                results'[Len(results')].result>>

ResultFromResponses(k) ==
    IF \E a \in 1..Len(calls) :
          calls[a][1] = "search" /\ calls[a][2] = k /\ calls[a][3] # "raised"
    THEN StructuredResult
    ELSE LET a == CHOOSE b \in 1..Len(calls) :
                      calls[b][1] = "fallback" /\ calls[b][2] = k
         IN  [main_findings |-> calls[a][3], key_points |-> <<>>,
              sources |-> <<>>, confidence |-> 5]

\* the package as a function of the strategy text and of the collaborators'
\* responses alone; the session identifier is no argument of it
PackageFromInputs ==
    LET qs == extract_search_queries(Str(strategy))
        rs == [k \in 1..Len(qs) |->
                  [query |-> qs[k], result |-> ResultFromResponses(k),
                   number |-> k]]
    IN  [queries |-> qs,
         results |-> rs,
         combined_results |-> [text |-> "combined text",
                               num_searches |-> Len(qs),
                               search_queries |-> qs],
         evaluation |-> evaluation,
         complete |-> is_search_complete(Str(evaluation))]

\* C17: the package execute_search_strategy returns is determined by the
\* strategy text and the provider and LLM responses, whatever the session_id
\* argument and the agent's earlier session id: two invocations that differ
\* in the session identifier only return the same queries, results,
\* combined_results, evaluation and complete.
C17_PackageIndependentOfSession ==
    Returned =>
        [queries |-> queries, results |-> results,
         combined_results |-> combined, evaluation |-> evaluation,
         complete |-> complete] = PackageFromInputs

C17_Witness ==
    /\ pc = "returned"
    /\ session_arg = "caller"
    /\ session_id = "caller"
    /\ Len(CallsOf("fallback")) = 1
    /\ Len(results) = 2

\* C18: in the returned package and in the saved strategy record, complete
\* is the keyword rule applied to the evaluation text of that same package
\* or record: true when a complete indicator occurs or no incomplete
\* indicator does; and no stage before the classification sets the flag.
C18_CompleteIsClassification ==
    /\ Returned =>
          complete = (HasComplete(evaluation) \/ ~HasIncomplete(evaluation))
    /\ \A r \in StrategyRecords :
          r[3].complete =
              (HasComplete(r[3].evaluation) \/ ~HasIncomplete(r[3].evaluation))
    /\ ~Returned => (complete = None /\ StrategyRecords = {})

C18_Witness ==
    /\ pc = "returned"
    /\ complete = FALSE
    /\ HasIncomplete(evaluation)
    /\ \E r \in StrategyRecords : r[3].complete = FALSE

(***************************************************************************)
(* The search engine adapters' claims, under SpecEngine.                   *)
(***************************************************************************)
\* C19: perform_search of a search engine adapter never raises, and when the
\* provider has failed at any point of the call, part-way through yielding
\* hits included, the list it returns is empty.
C19_EmptyListOnProviderFailure ==
    /\ pc # "raised"
    /\ (pc = "engine_returned" /\ provider_failed) => engine_results = <<>>

(***************************************************************************)
(* WebSearchTool's claims, under SpecRun.                                  *)
(***************************************************************************)
\* the engines that returned results, by their position in consulted
NonEmptyAt == {k \in 1..Len(consulted) : consulted[k][2] # <<>>}

\* C23: _run calls the preferred engine first and a further engine only
\* when every engine before it returned no results; the formatted output
\* is built from the first engine that returned a list that is not empty,
\* its results numbered 1..n in the order returned, and is "No results
\* found." exactly when every engine returned an empty list; a
\* preferred_engine that names no engine is taken as "duckduckgo".
C23_FirstEngineWithResults ==
    /\ consulted # <<>> =>
          /\ \A e \in DOMAIN KeyText :
                lower(preferred_arg) = KeyText[e] => consulted[1][1] = e
          /\ (\A e \in DOMAIN KeyText : lower(preferred_arg) # KeyText[e])
                => consulted[1][1] = "duckduckgo"
          /\ \A k \in 2..Len(consulted) :
                /\ consulted[k][1] \in Engines
                /\ \A j \in 1..(k - 1) :
                      consulted[j][2] = <<>> /\ consulted[j][1] # consulted[k][1]
    /\ pc = "run_returned" =>
          /\ NonEmptyAt # {} =>
                LET rs == consulted[MinOf(NonEmptyAt)][2]
                IN  /\ Len(formatted_results) = Len(rs)
                    /\ \A n \in 1..Len(rs) :
                          /\ formatted_results[n][1] = ToString(n)
                          /\ formatted_results[n][3] = rs[n].title
                          /\ formatted_results[n][6] = rs[n].url
                          /\ formatted_results[n][9] = rs[n].snippet
                    /\ formatted_text = Join(formatted_results, <<"\n">>)
          /\ formatted_text = <<"No results found.">>
                <=> /\ Len(consulted) = Len(EngineKeys)
                    /\ NonEmptyAt = {}

C23_Witness ==
    /\ pc = "run_returned"
    /\ preferred_engine = "google"
    /\ Len(consulted) = 2
    /\ consulted[1] = <<"google", <<>> >>
    /\ consulted[2][1] = "duckduckgo"
    /\ Len(consulted[2][2]) = 2
    /\ formatted_results[2][1] = "2"

(***************************************************************************)
(* Config's claims, under SpecConfig.                                      *)
(***************************************************************************)
\* Config() has returned to the thread
Constructed(t) ==
    tpc[t] \notin {"new", "new_lock", "new_check_locked", "new_create",
                   "new_unlock", "new_return", "init", "init_lock",
                   "init_check_locked", "init_load", "init_set",
                   "init_unlock", "raised"}

\* C24: under every interleaving of Config() calls of several threads, all
\* the callers obtain the same instance, and the configuration file is
\* loaded by __init__ once when the load succeeds: no call of _load_config
\* from __init__ follows one that returned, and a caller to which Config()
\* has returned finds the configuration loaded.
C24_SingletonLoadedOnce ==
    /\ created <= 1
    /\ \A t \in Threads : obtained[t] # 0 => obtained[t] = cfg_instance
    /\ init_loads <= 1
    /\ ~load_after_init
    /\ \A t \in Threads :
          Constructed(t) => (cfg_initialized /\ init_loads = 1)

C24_Witness ==
    /\ tpc[1] = "init_unlock"
    /\ tpc[2] = "init_lock"
    /\ cfg_initialized
    /\ init_loads = 1
    /\ obtained[1] = 1
    /\ obtained[2] = 1

\* C25: get_llm never returns None, a reload that runs in another thread
\* and resets the cached instance included.
C25_GetLlmNeverNone == \A t \in Threads : got_llm[t] # None

(***************************************************************************)
(* The session id's claims, under SpecSession.                             *)
(***************************************************************************)
\* the id stored before the k-th call
StoredBefore(k) == IF k = 1 THEN None ELSE uses[k - 1].stored

\* C26: the agent's session id is created at most once: a call without an
\* explicit session_id searches and saves under the id stored before it,
\* when there is one, and leaves it stored; an explicit session_id given to
\* execute_search_strategy replaces the stored id and is the id that
\* invocation's searches and saved results use.
C26_SessionIdCreatedOnce ==
    /\ generated <= 1
    /\ \A k \in 1..Len(uses) :
          /\ uses[k].searched = uses[k].stored
          /\ uses[k].saved_under = uses[k].stored
          /\ Truthy(uses[k].arg) => uses[k].stored = uses[k].arg
          /\ (~Truthy(uses[k].arg) /\ Truthy(StoredBefore(k)))
                => uses[k].stored = StoredBefore(k)
          /\ (~Truthy(uses[k].arg) /\ ~Truthy(StoredBefore(k)))
                => uses[k].stored = GeneratedId(1)

C26_Witness ==
    /\ Len(uses) = 3
    /\ generated = 1
    /\ uses[1].call = "search"
    /\ uses[1].stored = GeneratedId(1)
    /\ uses[2].call = "execute_search_strategy"
    /\ uses[2].arg = "caller_a"
    /\ uses[3].call = "answer_question"
    /\ uses[3].saved_under = "caller_a"

(***************************************************************************)
(* TerminalTool's claims, under SpecTerminal.                              *)
(***************************************************************************)
\* the commands submitted with a session id that are not empty, in the
\* order submitted, on whichever tool instance
SubmittedTo(session) ==
    LET of == SelectSeq(submitted,
                        LAMBDA c : c.session_id = session /\ c.command # "")
    IN  [n \in 1..Len(of) |-> of[n].command]

\* the command_history the last call on each session returned is its
\* history; the one session there is for a session id, whoever holds it
HistoryOf(session) ==
    LET keys == {k \in DOMAIN sessions : k[2] = session}
    IN  IF keys = {} THEN <<>>
        ELSE sessions[CHOOSE k \in keys : TRUE].history

C28_CurrentTabIsAKey ==
    \/ current_tab_id \in Keys(tabs)
    \/ current_tab_id = NoTab /\ tabs = <<>>

(***************************************************************************)
(* TerminateTool's claim, under SpecTerminate.                             *)
(***************************************************************************)
\* C29: for every reason and final_result, the string _run returns is a
\* termination signal and extract_final_result gives back final_result, or
\* "Task completed successfully." when final_result is empty; and of a string
\* that is no termination signal, extract_final_result returns the string.
C29_PayloadRoundTrips ==
    /\ pc = "extracted"
          => /\ is_signal
             /\ extracted = IF final_result # <<>> THEN final_result
                            ELSE TaskCompleted
    /\ (pc = "extracted other" /\ ~is_signal) => extracted = signal

====
